---- MODULE Spec2Model ----
(***************************************************************************)
(* letllm-go: the streaming relay of the chat-completion handler           *)
(* (RegisterRoutes, streaming branch), the adapters' pipe producer that    *)
(* feeds it, and the provider registry's routing (Registry.Route); the     *)
(* registry's calls under its read-write lock, Registry.Close, request     *)
(* validation, the adapters' Generate and StreamGenerate with the handler  *)
(* in front of them, MergeCapabilities and the Gemini message conversion.  *)
(*                                                                         *)
(* Fragments are opaque pieces of text: the relay copies them and never    *)
(* inspects them.  The adapters write JSON lines, so fragments are taken   *)
(* to be valid UTF-8 text, which string(b) and the JSON encoder keep.      *)
(***************************************************************************)
EXTENDS Integers, Sequences, FiniteSets, TLC

(***************************************************************************)
(* Bounds and program constants                                            *)
(***************************************************************************)

\* Most fragments the vendor yields on one streaming call.
MaxFrags == 10

\* Most rules in the configured rule list.
MaxRules == 2

\* Goroutines calling into one registry at the same time.
NumThreads == 2

\* Most messages in one request.
MaxMsgs == 2

\* Most descriptors handed to MergeCapabilities.
MaxCaps == 3

\* Most messages handed to convertMessagesToParts.
MaxConvMsgs == 3

\* Most candidates (choices) in one vendor response.
MaxChoices == 2

\* chunks := make(chan []byte, 8)
ChunksCap == 8

\* errCh := make(chan error, 1)
ErrChCap == 1

\* The content of the i-th fragment the vendor yields.  The relay never looks
\* inside a fragment, so each is given a content of its own: any fragment
\* dropped, repeated or moved shows in the frames written.
Frag(i) == "f" \o ToString(i)

\* The final chunk the Gemini producer writes at end-of-stream (done = true).
FinalChunk == "{done}"

NoData == "-"

(***************************************************************************)
(* State                                                                   *)
(***************************************************************************)
VARIABLES
    vendor,        \* which adapter serves the call: "openai" or "gemini"
    ctxDone,       \* the request context has been cancelled
    prodPc,        \* adapter goroutine: "next", "write", "writeFinal", "done"
    pend,          \* the data of the producer's pending pw.Write
    pipeErr,       \* how the write side closed the pipe: "nil", "EOF", "ERR"
    rcClosed,      \* the handler's deferred rc.Close() has run
    upLog,         \* fragments the producer has handed to pw.Write, in order
    readerPc,      \* reader goroutine: "read", "send", "check", "close", "done"
    n,             \* the fragment returned by the reader's last Read (cp)
    readErr,       \* the error of the reader's last Read: "nil", "EOF", "ERR"
    readLog,       \* fragments the reader's Reads returned, in order
    chunks,        \* the hand-off channel's buffer
    chunksClosed,  \* close(chunks) has run
    errCh,         \* the error channel's buffer
    errPosted,     \* the reader has posted a read error on errCh
    handlerPc,     \* the handler (sender loop): "select" or "returned"
    exitPath,      \* how the handler returned
    taken,         \* fragments the sender received from chunks, in order
    out,           \* frames written to the client, in order
    cfgRoutes,     \* cfg.Routes: the ordered rule list
    providers,     \* r.providers: provider name -> adapter
    routeModel,    \* the model of the last Route call
    routeResult,   \* what the last Route call returned
    thr,           \* per goroutine: the registry call it is in and where
    rwReaders,     \* r.mu: read locks currently held
    rwWriter,      \* r.mu: the goroutine that announced Lock (0: none)
    closeLog,      \* Registry.Close: names whose adapter was closed, in order
    closeFailed,   \* Registry.Close: names whose adapter's Close failed
    closeErr,      \* Registry.Close: what the call returned
    req,           \* the StandardRequest handed to an operation
    reqOp,         \* the operation last applied to req
    reqResult,     \* what that operation returned and did
    caps,          \* the descriptors handed to MergeCapabilities
    merged,        \* <<what MergeCapabilities returned>>; <<>> before the call
    xlatOp,        \* the adapter translation applied: what is translated, by whom
    xlatIn,        \* <<the vendor-side or request-side value translated>>
    xlatOut,       \* <<its translation>>; <<>> before the translation
    cfgKeys,       \* cfg.OpenAI.APIKey and cfg.Gemini.APIKey
    regErr,        \* the error NewRegistry returned ("nil": a registry)
    listed,        \* <<names ListProviders returned entries for>>; <<>> before
    fmResult       \* <<what the handler's r.ForModel returned>>; <<>> before

relayVars == <<vendor, ctxDone, prodPc, pend, pipeErr, rcClosed, upLog, readerPc,
               n, readErr, readLog, chunks, chunksClosed, errCh, errPosted,
               handlerPc, exitPath, taken, out>>

routeVars == <<cfgRoutes, providers, routeModel, routeResult>>

vars == <<vendor, ctxDone, prodPc, pend, pipeErr, rcClosed, upLog, readerPc,
          n, readErr, readLog, chunks, chunksClosed, errCh, errPosted,
          handlerPc, exitPath, taken, out,
          cfgRoutes, providers, routeModel, routeResult,
          thr, rwReaders, rwWriter, closeLog, closeFailed, closeErr,
          req, reqOp, reqResult, caps, merged,
          xlatOp, xlatIn, xlatOut, cfgKeys, regErr, listed, fmResult>>

lockVars == <<thr, rwReaders, rwWriter>>

closeVars == <<closeLog, closeFailed, closeErr>>

reqVars == <<req, reqOp, reqResult>>

capVars == <<caps, merged>>

xlatVars == <<xlatOp, xlatIn, xlatOut>>

bootVars == <<cfgKeys, regErr, listed, fmResult>>

\* Goroutines calling into one registry.
Threads == 1..NumThreads

IdleThread == [op |-> "idle", pc |-> "idle", model |-> "", name |-> "", adapter |-> "",
               ret |-> [provider |-> "nil", err |-> "none"]]

\* No goroutine is inside a registry call.
LockIdle ==
    /\ thr = [t \in Threads |-> IdleThread]
    /\ rwReaders = 0
    /\ rwWriter = 0

\* Registry.Close has not been called.
CloseIdle ==
    /\ closeLog = <<>>
    /\ closeFailed = {}
    /\ closeErr = "none"

\* No request is being served.
\* A nil *StandardRequest.
NilRequest == [isNil |-> TRUE, Model |-> "", Messages |-> <<>>,
               Temperature |-> <<>>, TopP |-> <<>>, MaxTokens |-> <<>>]

\* What an operation on a request returned and did: the error (or HTTP
\* status for the handler), how many vendor calls were issued, how many pipes
\* and producer goroutines were created, and the converted message contents.
Outcome(err, status, calls, streams, parts) ==
    [err |-> err, status |-> status, vendorCalls |-> calls, streams |-> streams,
     parts |-> parts]

NoOutcome == Outcome("none", 0, 0, 0, <<>>)

ReqIdle ==
    /\ req = NilRequest
    /\ reqOp = "none"
    /\ reqResult = NoOutcome

\* MergeCapabilities has not been called.
CapIdle ==
    /\ caps = <<>>
    /\ merged = <<>>

\* No adapter translation has been applied.
XlatIdle ==
    /\ xlatOp = "none"
    /\ xlatIn = <<>>
    /\ xlatOut = <<>>

\* The registry was not built from API keys, and no endpoint call was made.
BootIdle ==
    /\ cfgKeys = [openai |-> "", gemini |-> ""]
    /\ regErr = "nil"
    /\ listed = <<>>
    /\ fmResult = <<>>

(***************************************************************************)
(* Frames on the client connection                                         *)
(***************************************************************************)

\* "data: " + JSON of a chat.completion.chunk whose delta content is string(b)
ChunkFrame(b) == [done |-> FALSE, content |-> b]

\* "data: [DONE]\n\n"
DoneFrame == [done |-> TRUE, content |-> "[DONE]"]

RECURSIVE Frames(_)
Frames(s) == IF s = <<>> THEN <<>> ELSE <<ChunkFrame(Head(s))>> \o Frames(Tail(s))


(***************************************************************************)
(* The adapter's producer goroutine and its io.Pipe                        *)
(* (GeminiProvider.StreamGenerate, OpenAIProvider.StreamGenerate)          *)
(***************************************************************************)

\* The pipe is done once either side closed it: Read and Write then fail.
PipeDone == rcClosed \/ pipeErr # "nil"

\* iter.Next() / stream.Recv() returns a response: the producer marshals it
\* and starts pw.Write(chunkData), which blocks until the reader takes it.
ProducerNextData ==
    /\ prodPc = "next"
    /\ Len(upLog) < MaxFrags
    /\ prodPc' = "write"
    /\ pend' = Frag(Len(upLog) + 1)
    /\ upLog' = Append(upLog, Frag(Len(upLog) + 1))
    /\ UNCHANGED <<vendor, ctxDone, pipeErr, rcClosed, readerPc, n, readErr, readLog,
                   chunks, chunksClosed, errCh, errPosted, handlerPc, exitPath,
                   taken, out>>
    /\ UNCHANGED <<routeVars, lockVars, closeVars, reqVars, capVars, xlatVars, bootVars>>

\* io.EOF from the vendor.  OpenAI: return, the deferred pw.Close() ends the
\* pipe with EOF.  Gemini: first write the final chunk, then break and close.
ProducerNextEOF ==
    /\ prodPc = "next"
    /\ IF vendor = "gemini"
         THEN /\ prodPc' = "writeFinal"
              /\ pend' = FinalChunk
              /\ upLog' = Append(upLog, FinalChunk)
              /\ UNCHANGED pipeErr
         ELSE /\ prodPc' = "done"
              /\ pipeErr' = IF PipeDone THEN pipeErr ELSE "EOF"
              /\ UNCHANGED <<pend, upLog>>
    /\ UNCHANGED <<vendor, ctxDone, rcClosed, readerPc, n, readErr, readLog,
                   chunks, chunksClosed, errCh, errPosted, handlerPc, exitPath,
                   taken, out>>
    /\ UNCHANGED <<routeVars, lockVars, closeVars, reqVars, capVars, xlatVars, bootVars>>

\* Any other error from the vendor: pw.CloseWithError(err); return.
ProducerNextErr ==
    /\ prodPc = "next"
    /\ prodPc' = "done"
    /\ pipeErr' = IF PipeDone THEN pipeErr ELSE "ERR"
    /\ UNCHANGED <<vendor, ctxDone, pend, rcClosed, upLog, readerPc, n, readErr,
                   readLog, chunks, chunksClosed, errCh, errPosted, handlerPc,
                   exitPath, taken, out>>
    /\ UNCHANGED <<routeVars, lockVars, closeVars, reqVars, capVars, xlatVars, bootVars>>

\* The pending pw.Write returns io.ErrClosedPipe because the read side was
\* closed: the producer closes its side and returns.
ProducerWriteFail ==
    /\ prodPc \in {"write", "writeFinal"}
    /\ rcClosed
    /\ prodPc' = "done"
    /\ pend' = NoData
    /\ UNCHANGED <<vendor, ctxDone, pipeErr, rcClosed, upLog, readerPc, n, readErr,
                   readLog, chunks, chunksClosed, errCh, errPosted, handlerPc,
                   exitPath, taken, out>>
    /\ UNCHANGED <<routeVars, lockVars, closeVars, reqVars, capVars, xlatVars, bootVars>>

(***************************************************************************)
(* The reader goroutine of the handler                                     *)
(***************************************************************************)

\* n, readErr := rc.Read(buf).  A done pipe fails the Read: with the write
\* side's error (EOF after pw.Close) while the read side is open, with
\* io.ErrClosedPipe once rc.Close() ran.  Otherwise the Read takes the
\* pending Write, which then returns; the Gemini producer's final write is
\* followed by break and the deferred pw.Close().  With neither, Read blocks.
ReaderRead ==
    /\ readerPc = "read"
    /\ IF PipeDone
         THEN /\ n' = NoData
              /\ readErr' = IF rcClosed THEN "ERR" ELSE pipeErr
              /\ readerPc' = "check"
              /\ UNCHANGED <<prodPc, pend, pipeErr, readLog>>
         ELSE /\ prodPc \in {"write", "writeFinal"}
              /\ n' = pend
              /\ readErr' = "nil"
              /\ readLog' = Append(readLog, pend)
              /\ readerPc' = "send"
              /\ pend' = NoData
              /\ prodPc' = IF prodPc = "writeFinal" THEN "done" ELSE "next"
              /\ pipeErr' = IF prodPc = "writeFinal" THEN "EOF" ELSE pipeErr
    /\ UNCHANGED <<vendor, ctxDone, rcClosed, upLog, chunks, chunksClosed, errCh,
                   errPosted, handlerPc, exitPath, taken, out>>
    /\ UNCHANGED <<routeVars, lockVars, closeVars, reqVars, capVars, xlatVars, bootVars>>

\* ReaderSend as a non-blocking send (select with a default case): a fragment
\* that finds the channel full is dropped.
ReaderSendDrop ==
    /\ readerPc = "send"
    /\ chunks' = IF Len(chunks) < ChunksCap THEN Append(chunks, n) ELSE chunks
    /\ readerPc' = "check"
    /\ UNCHANGED <<vendor, ctxDone, prodPc, pend, pipeErr, rcClosed, upLog, n,
                   readErr, readLog, chunksClosed, errCh, errPosted, handlerPc,
                   exitPath, taken, out>>
    /\ UNCHANGED <<routeVars, lockVars, closeVars, reqVars, capVars, xlatVars, bootVars>>

\* ReaderSend with the fragment put at the head of the queue (the newest
\* fragment overtakes the buffered ones).
ReaderSendFront ==
    /\ readerPc = "send"
    /\ Len(chunks) < ChunksCap
    /\ chunks' = <<n>> \o chunks
    /\ readerPc' = "check"
    /\ UNCHANGED <<vendor, ctxDone, prodPc, pend, pipeErr, rcClosed, upLog, n,
                   readErr, readLog, chunksClosed, errCh, errPosted, handlerPc,
                   exitPath, taken, out>>
    /\ UNCHANGED <<routeVars, lockVars, closeVars, reqVars, capVars, xlatVars, bootVars>>

\* if n > 0 { chunks <- cp }: blocks while the channel holds ChunksCap items.
ReaderSend ==
    /\ readerPc = "send"
    /\ Len(chunks) < ChunksCap
    /\ chunks' = Append(chunks, n)
    /\ readerPc' = "check"
    /\ UNCHANGED <<vendor, ctxDone, prodPc, pend, pipeErr, rcClosed, upLog, n,
                   readErr, readLog, chunksClosed, errCh, errPosted, handlerPc,
                   exitPath, taken, out>>
    /\ UNCHANGED <<routeVars, lockVars, closeVars, reqVars, capVars, xlatVars, bootVars>>

\* ReaderCheck without the return after the post: the loop goes on reading
\* after a hard read error.
ReaderCheckRetry ==
    /\ readerPc = "check"
    /\ CASE readErr = "nil" -> /\ readerPc' = "read"
                                /\ UNCHANGED <<errCh, errPosted>>
         [] readErr = "EOF" -> /\ readerPc' = "close"
                                /\ UNCHANGED <<errCh, errPosted>>
         [] OTHER           -> /\ Len(errCh) < ErrChCap
                                /\ errCh' = Append(errCh, readErr)
                                /\ errPosted' = TRUE
                                /\ readerPc' = "read"
    /\ UNCHANGED <<vendor, ctxDone, prodPc, pend, pipeErr, rcClosed, upLog, n,
                   readErr, readLog, chunks, chunksClosed, handlerPc, exitPath,
                   taken, out>>
    /\ UNCHANGED <<routeVars, lockVars, closeVars, reqVars, capVars, xlatVars, bootVars>>

\* if readErr == io.EOF { return }; if readErr != nil { errCh <- readErr; return };
\* otherwise the loop reads again.
ReaderCheck ==
    /\ readerPc = "check"
    /\ CASE readErr = "nil" -> /\ readerPc' = "read"
                                /\ UNCHANGED <<errCh, errPosted>>
         [] readErr = "EOF" -> /\ readerPc' = "close"
                                /\ UNCHANGED <<errCh, errPosted>>
         [] OTHER           -> /\ Len(errCh) < ErrChCap
                                /\ errCh' = Append(errCh, readErr)
                                /\ errPosted' = TRUE
                                /\ readerPc' = "close"
    /\ UNCHANGED <<vendor, ctxDone, prodPc, pend, pipeErr, rcClosed, upLog, n,
                   readErr, readLog, chunks, chunksClosed, handlerPc, exitPath,
                   taken, out>>
    /\ UNCHANGED <<routeVars, lockVars, closeVars, reqVars, capVars, xlatVars, bootVars>>

\* defer close(chunks), and the goroutine ends.
ReaderClose ==
    /\ readerPc = "close"
    /\ chunksClosed' = TRUE
    /\ readerPc' = "done"
    /\ UNCHANGED <<vendor, ctxDone, prodPc, pend, pipeErr, rcClosed, upLog, n,
                   readErr, readLog, chunks, errCh, errPosted, handlerPc, exitPath,
                   taken, out>>
    /\ UNCHANGED <<routeVars, lockVars, closeVars, reqVars, capVars, xlatVars, bootVars>>


(***************************************************************************)
(* The sender loop of the handler: one select per iteration.  Go's select  *)
(* picks one of the ready cases; each ready case is one enabled action.    *)
(* A sender that parks on the select and is woken by the first channel     *)
(* operation takes that operation's case: the same outcome as the action   *)
(* of that case taken right after the operation.  A sender that reaches    *)
(* the select late (still flushing the previous frame) finds whatever      *)
(* cases became ready meanwhile.                                           *)
(***************************************************************************)

\* A return that leaves the stream open.
HandlerReturnNoClose(path) ==
    /\ handlerPc' = "returned"
    /\ exitPath' = path
    /\ rcClosed' = rcClosed

\* The handler returns: the deferred rc.Close() closes the pipe's read side.
\* Nothing waits for the reader goroutine.
HandlerReturn(path) ==
    /\ handlerPc' = "returned"
    /\ exitPath' = path
    /\ rcClosed' = TRUE

\* SenderCancel honoured only once the reader goroutine has ended.
SenderCancelAfterReader ==
    /\ handlerPc = "select"
    /\ ctxDone
    /\ readerPc = "done"
    /\ handlerPc' = "returned"
    /\ exitPath' = "cancel"
    /\ rcClosed' = TRUE
    /\ UNCHANGED <<vendor, ctxDone, prodPc, pend, pipeErr, upLog, readerPc, n,
                   readErr, readLog, chunks, chunksClosed, errCh, errPosted,
                   taken, out>>
    /\ UNCHANGED <<routeVars, lockVars, closeVars, reqVars, capVars, xlatVars, bootVars>>

\* case <-c.Request.Context().Done(): return
SenderCancel ==
    /\ handlerPc = "select"
    /\ ctxDone
    /\ HandlerReturn("cancel")
    /\ UNCHANGED <<vendor, ctxDone, prodPc, pend, pipeErr, upLog, readerPc, n,
                   readErr, readLog, chunks, chunksClosed, errCh, errPosted,
                   taken, out>>
    /\ UNCHANGED <<routeVars, lockVars, closeVars, reqVars, capVars, xlatVars, bootVars>>

\* case err := <-errCh: if err != nil { return }
\* Only non-nil errors are ever sent on errCh, and it is never closed.
SenderErr ==
    /\ handlerPc = "select"
    /\ errCh # <<>>
    /\ errCh' = Tail(errCh)
    /\ HandlerReturn("error")
    /\ UNCHANGED <<vendor, ctxDone, prodPc, pend, pipeErr, upLog, readerPc, n,
                   readErr, readLog, chunks, chunksClosed, errPosted, taken, out>>
    /\ UNCHANGED <<routeVars, lockVars, closeVars, reqVars, capVars, xlatVars, bootVars>>

\* case b, ok := <-chunks with ok: write "data: ", encode the chunk, flush.
\* encOk is whether enc.Encode succeeded; on failure the handler returns.
SenderChunk(encOk) ==
    /\ handlerPc = "select"
    /\ chunks # <<>>
    /\ chunks' = Tail(chunks)
    /\ taken' = Append(taken, Head(chunks))
    /\ IF encOk
         THEN /\ out' = Append(out, ChunkFrame(Head(chunks)))
              /\ UNCHANGED <<handlerPc, exitPath, rcClosed>>
         ELSE /\ HandlerReturn("writefail")
              /\ UNCHANGED out
    /\ UNCHANGED <<vendor, ctxDone, prodPc, pend, pipeErr, upLog, readerPc, n,
                   readErr, readLog, chunksClosed, errCh, errPosted>>
    /\ UNCHANGED <<routeVars, lockVars, closeVars, reqVars, capVars, xlatVars, bootVars>>

\* case b, ok := <-chunks with !ok (closed and drained): write the terminal
\* marker, flush, return.
SenderDone ==
    /\ handlerPc = "select"
    /\ chunks = <<>>
    /\ chunksClosed
    /\ out' = Append(out, DoneFrame)
    /\ HandlerReturn("done")
    /\ UNCHANGED <<vendor, ctxDone, prodPc, pend, pipeErr, upLog, readerPc, n,
                   readErr, readLog, chunks, chunksClosed, errCh, errPosted, taken>>
    /\ UNCHANGED <<routeVars, lockVars, closeVars, reqVars, capVars, xlatVars, bootVars>>

\* The caller cancels the request (client disconnect, timeout).
Cancel ==
    /\ handlerPc = "select"
    /\ ~ctxDone
    /\ ctxDone' = TRUE
    /\ UNCHANGED <<vendor, prodPc, pend, pipeErr, rcClosed, upLog, readerPc, n,
                   readErr, readLog, chunks, chunksClosed, errCh, errPosted,
                   handlerPc, exitPath, taken, out>>
    /\ UNCHANGED <<routeVars, lockVars, closeVars, reqVars, capVars, xlatVars, bootVars>>

(***************************************************************************)
(* The streaming call: StreamGenerate has returned rc, the channels are    *)
(* made and the reader goroutine is started.                               *)
(***************************************************************************)
RelayInit ==
    /\ vendor \in {"openai", "gemini"}
    /\ ctxDone = FALSE
    /\ prodPc = "next"
    /\ pend = NoData
    /\ pipeErr = "nil"
    /\ rcClosed = FALSE
    /\ upLog = <<>>
    /\ readerPc = "read"
    /\ n = NoData
    /\ readErr = "nil"
    /\ readLog = <<>>
    /\ chunks = <<>>
    /\ chunksClosed = FALSE
    /\ errCh = <<>>
    /\ errPosted = FALSE
    /\ handlerPc = "select"
    /\ exitPath = "none"
    /\ taken = <<>>
    /\ out = <<>>

RouteIdle ==
    /\ cfgRoutes = <<>>
    /\ providers = <<>>
    /\ routeModel = ""
    /\ routeResult = [provider |-> "nil", err |-> "none"]

Init ==
    RelayInit /\ RouteIdle /\ LockIdle /\ CloseIdle /\ ReqIdle /\ CapIdle /\ XlatIdle /\ BootIdle

Next ==
    \/ ProducerNextData
    \/ ProducerNextEOF
    \/ ProducerNextErr
    \/ ProducerWriteFail
    \/ ReaderRead
    \/ ReaderSend
    \/ ReaderCheck
    \/ ReaderClose
    \/ SenderCancel
    \/ SenderErr
    \/ \E encOk \in BOOLEAN : SenderChunk(encOk)
    \/ SenderDone
    \/ Cancel

Spec == Init /\ [][Next]_vars


(***************************************************************************)
(* Scheduling.  Goroutines that can run do run, and a select case that     *)
(* stays ready is eventually the one picked (Go picks uniformly among the  *)
(* ready cases).  Nothing obliges the vendor to produce, nor the caller to *)
(* cancel.                                                                 *)
(***************************************************************************)
Fairness ==
    /\ WF_vars(ReaderRead)
    /\ WF_vars(ReaderSend)
    /\ WF_vars(ReaderCheck)
    /\ WF_vars(ReaderClose)
    /\ WF_vars(ProducerWriteFail)
    /\ WF_vars(SenderCancel)
    /\ WF_vars(SenderErr)
    /\ WF_vars(\E encOk \in BOOLEAN : SenderChunk(encOk))
    /\ WF_vars(SenderDone)

FairSpec == Init /\ [][Next]_vars /\ Fairness

(***************************************************************************)
(* Properties of the streaming relay                                       *)
(***************************************************************************)

IsPrefix(s, t) == Len(s) <= Len(t) /\ SubSeq(t, 1, Len(s)) = s

HasDone(o) == \E i \in 1..Len(o) : o[i].done

NumChunks(o) == Cardinality({i \in 1..Len(o) : ~o[i].done})

\* The upstream ended with end-of-stream, the caller did not cancel and no
\* client write failed.
NormalRun == pipeErr = "EOF" /\ ~ctxDone /\ exitPath # "writefail"

C2_NothingAfterCancel == [][ctxDone => out' = out]_vars

\* C3: once the reader has posted a read error, no further chunk is written.
C3_NoChunkAfterError == [][errPosted => NumChunks(out') = NumChunks(out)]_vars

\* C4: the terminal marker is written only when the upstream reached
\* end-of-stream and no read error was posted.
C4_DoneOnlyAfterEOF == HasDone(out) => (readErr = "EOF" /\ ~errPosted)

\* C5: when the handler has returned, the reader goroutine has terminated.
C5_TornDownAtReturn == handlerPc = "returned" => readerPc = "done"

\* C6: once the sender has exited, the reader eventually terminates.
C6_ReaderTerminates == (handlerPc = "returned") ~> (readerPc = "done")

\* C7: the hand-off channel never holds more than ChunksCap fragments, and the
\* fragments read from the upstream are exactly those the sender received,
\* followed by those buffered, followed by the one the reader is blocked
\* sending: none dropped, none duplicated, none reordered.
C7_Backpressure ==
    /\ Len(chunks) <= ChunksCap
    /\ readLog = taken \o chunks \o (IF readerPc = "send" THEN <<n>> ELSE <<>>)

C7_Witness ==
    /\ Len(chunks) = ChunksCap
    /\ readerPc = "send"
    /\ handlerPc = "select"
    /\ ~ENABLED ReaderSend

\* C8: after the caller's cancellation is signaled the sender loop eventually
\* terminates, whatever the reader is doing.
C8_CancelStopsSender == ctxDone ~> (handlerPc = "returned")

C8_Witness ==
    /\ exitPath = "cancel"
    /\ handlerPc = "returned"
    /\ readerPc = "send"
    /\ Len(chunks) = ChunksCap


(***************************************************************************)
(* The provider registry: Registry.Route over cfg.Routes and r.providers   *)
(***************************************************************************)

\* strings.HasPrefix, strings.HasSuffix, strings.Contains
HasPrefix(s, p) == Len(p) <= Len(s) /\ SubSeq(s, 1, Len(p)) = p

HasSuffix(s, p) == Len(p) <= Len(s) /\ SubSeq(s, Len(s) - Len(p) + 1, Len(s)) = p

Contains(s, t) == \E i \in 1..(Len(s) - Len(t) + 1) : SubSeq(s, i, i + Len(t) - 1) = t

\* Model identifiers, rule prefixes, provider names and adapter instances the
\* inputs are drawn from.
Models == {"gpt-4", "gpt-3.5-turbo", "gemini-pro", "unknown-model", "my-gemini", "chatgpt",
           "azure-openai", "gemini-gpt"}

Prefixes == {"gpt-", "gemini-", "g"}

ProviderNames == {"openai", "gemini", "azure"}

Adapters == {"OpenAIProvider", "GeminiProvider"}

Rules == [Prefix : Prefixes, Provider : ProviderNames]

RuleLists == UNION {[1..k -> Rules] : k \in 0..MaxRules}

\* Every mapping r.providers can hold after NewRegistry and RegisterProvider calls.
Registries == UNION {[S -> Adapters] : S \in SUBSET ProviderNames}

Found(p) == [provider |-> p, err |-> "nil"]

Failed(e) == [provider |-> "nil", err |-> e]

\* GetProviderForModel that recognises the vendor tokens only as prefixes
\* (as the earlier Router.ForModel did for Gemini).
GetProviderForModelPrefixOnly(reg, model) ==
    IF HasPrefix(model, "gpt") /\ "openai" \in DOMAIN reg
    THEN Found(reg["openai"])
    ELSE IF HasPrefix(model, "gemini") /\ "gemini" \in DOMAIN reg
    THEN Found(reg["gemini"])
    ELSE Failed("no provider matched model")

\* Registry.GetProviderForModel: the vendor-name heuristics.
GetProviderForModel(reg, model) ==
    IF /\ \/ HasPrefix(model, "gpt-")
          \/ HasPrefix(model, "gpt4")
          \/ Contains(model, "gpt")
          \/ HasSuffix(model, "-openai")
          \/ Contains(model, "openai")
       /\ "openai" \in DOMAIN reg
    THEN Found(reg["openai"])
    ELSE IF /\ \/ HasPrefix(model, "gemini-")
               \/ Contains(model, "gemini")
               \/ HasSuffix(model, "-gemini")
            /\ "gemini" \in DOMAIN reg
    THEN Found(reg["gemini"])
    ELSE Failed("no provider matched model")

\* Route in which a later matching rule overrides an earlier one.
RECURSIVE RouteFromLastMatch(_, _, _, _)
RouteFromLastMatch(routes, reg, model, i) ==
    IF i > Len(routes)
    THEN GetProviderForModel(reg, model)
    ELSE IF /\ HasPrefix(model, routes[i].Prefix)
            /\ \A j \in (i + 1)..Len(routes) : ~HasPrefix(model, routes[j].Prefix)
    THEN IF routes[i].Provider \in DOMAIN reg
         THEN Found(reg[routes[i].Provider])
         ELSE Failed("provider not configured")
    ELSE RouteFromLastMatch(routes, reg, model, i + 1)

\* Route in which a matching rule whose provider is not registered is skipped.
RECURSIVE RouteFromFallThrough(_, _, _, _)
RouteFromFallThrough(routes, reg, model, i) ==
    IF i > Len(routes)
    THEN GetProviderForModel(reg, model)
    ELSE IF /\ HasPrefix(model, routes[i].Prefix)
            /\ routes[i].Provider \in DOMAIN reg
    THEN Found(reg[routes[i].Provider])
    ELSE RouteFromFallThrough(routes, reg, model, i + 1)

\* Registry.Route: the loop over cfg.Routes from rule i on, then the fallback.
RECURSIVE RouteFrom(_, _, _, _)
RouteFrom(routes, reg, model, i) ==
    IF i > Len(routes)
    THEN GetProviderForModel(reg, model)
    ELSE IF HasPrefix(model, routes[i].Prefix)
    THEN IF routes[i].Provider \in DOMAIN reg
         THEN Found(reg[routes[i].Provider])
         ELSE Failed("provider not configured")
    ELSE RouteFrom(routes, reg, model, i + 1)

Route(routes, reg, model) == RouteFrom(routes, reg, model, 1)

\* A caller routes a request for model m.
CallRoute(m) ==
    /\ routeModel' = m
    /\ routeResult' = Route(cfgRoutes, providers, m)
    /\ UNCHANGED <<cfgRoutes, providers>>
    /\ UNCHANGED <<relayVars, lockVars, closeVars, reqVars, capVars, xlatVars, bootVars>>

RelayIdle ==
    /\ vendor = "openai"
    /\ ctxDone = FALSE
    /\ prodPc = "done"
    /\ pend = NoData
    /\ pipeErr = "nil"
    /\ rcClosed = FALSE
    /\ upLog = <<>>
    /\ readerPc = "done"
    /\ n = NoData
    /\ readErr = "nil"
    /\ readLog = <<>>
    /\ chunks = <<>>
    /\ chunksClosed = FALSE
    /\ errCh = <<>>
    /\ errPosted = FALSE
    /\ handlerPc = "returned"
    /\ exitPath = "none"
    /\ taken = <<>>
    /\ out = <<>>

RouteInit ==
    /\ cfgRoutes \in RuleLists
    /\ providers \in Registries
    /\ routeModel = ""
    /\ routeResult = Failed("none")
    /\ RelayIdle
    /\ LockIdle
    /\ CloseIdle
    /\ ReqIdle
    /\ CapIdle
    /\ XlatIdle
    /\ BootIdle

RouteNext == \E m \in Models : CallRoute(m)

RouteSpec == RouteInit /\ [][RouteNext]_vars

(***************************************************************************)
(* Properties of Route                                                     *)
(***************************************************************************)

Matching(routes, model) == {i \in 1..Len(routes) : HasPrefix(model, routes[i].Prefix)}

FirstMatch(routes, model) ==
    CHOOSE i \in Matching(routes, model) : \A j \in Matching(routes, model) : i <= j

Routed == routeModel # ""

\* C9: when some rule's prefix is a prefix of the model and the provider named
\* by the first such rule is registered, Route returns that provider's
\* adapter, whatever later rules match.
C9_FirstMatchWins ==
    (Routed /\ Matching(cfgRoutes, routeModel) # {}) =>
        LET rt == cfgRoutes[FirstMatch(cfgRoutes, routeModel)]
        IN  rt.Provider \in DOMAIN providers =>
                routeResult = Found(providers[rt.Provider])

\* Two rules match gpt-4 and name different registered adapters: the first wins.
C9_Witness ==
    /\ routeModel = "gpt-4"
    /\ Cardinality(Matching(cfgRoutes, routeModel)) = 2
    /\ cfgRoutes[1].Provider \in DOMAIN providers
    /\ cfgRoutes[2].Provider \in DOMAIN providers
    /\ providers[cfgRoutes[1].Provider] # providers[cfgRoutes[2].Provider]
    /\ routeResult = Found(providers[cfgRoutes[1].Provider])

\* C10: when the first matching rule names a provider that is not registered,
\* Route fails with provider-not-configured and returns no provider, whatever
\* the later rules and the heuristics would give.
C10_NoFallThrough ==
    (Routed /\ Matching(cfgRoutes, routeModel) # {}) =>
        LET rt == cfgRoutes[FirstMatch(cfgRoutes, routeModel)]
        IN  rt.Provider \notin DOMAIN providers =>
                routeResult = Failed("provider not configured")

\* gpt-4 matches a first rule naming an unregistered provider, while a later
\* rule and the heuristics would both resolve it to a registered adapter.
C10_Witness ==
    /\ routeModel = "gpt-4"
    /\ Len(cfgRoutes) = 2
    /\ Matching(cfgRoutes, routeModel) = {1, 2}
    /\ cfgRoutes[1].Provider \notin DOMAIN providers
    /\ cfgRoutes[2].Provider \in DOMAIN providers
    /\ GetProviderForModel(providers, routeModel).err = "nil"
    /\ routeResult = Failed("provider not configured")


\* C11: when no rule prefix matches the model, Route returns the adapter
\* registered as "openai" if the model contains "gpt" or "openai" and that
\* name is registered; otherwise the adapter registered as "gemini" if the
\* model contains "gemini" and that name is registered; otherwise it fails
\* with the no-provider error and returns no provider.
C11_Fallback ==
    (Routed /\ Matching(cfgRoutes, routeModel) = {}) =>
        routeResult =
            IF /\ Contains(routeModel, "gpt") \/ Contains(routeModel, "openai")
               /\ "openai" \in DOMAIN providers
            THEN [provider |-> providers["openai"], err |-> "nil"]
            ELSE IF Contains(routeModel, "gemini") /\ "gemini" \in DOMAIN providers
            THEN [provider |-> providers["gemini"], err |-> "nil"]
            ELSE [provider |-> "nil", err |-> "no provider matched model"]

\* No rule matches: gpt-3.5-turbo resolves to the OpenAI adapter by its token.
C11_Witness ==
    /\ routeModel = "gpt-3.5-turbo"
    /\ Len(cfgRoutes) > 0
    /\ Matching(cfgRoutes, routeModel) = {}
    /\ "openai" \in DOMAIN providers
    /\ routeResult = [provider |-> providers["openai"], err |-> "nil"]

\* No rule matches and a token sits inside the model name: the OpenAI name is
\* not registered, so the Gemini token decides.
C11_WitnessInner ==
    /\ routeModel = "gemini-gpt"
    /\ Matching(cfgRoutes, routeModel) = {}
    /\ "openai" \notin DOMAIN providers
    /\ "gemini" \in DOMAIN providers
    /\ routeResult = [provider |-> providers["gemini"], err |-> "nil"]

(***************************************************************************)
(* Registry.Close and Registry.RegisterProvider as functions of the        *)
(* registry's mapping                                                      *)
(***************************************************************************)

\* The orders in which "for name, provider := range r.providers" may visit the
\* names of S: Go leaves the iteration order of a map unspecified.
Orders(S) == {o \in [1..Cardinality(S) -> S] : \A i, j \in DOMAIN o : o[i] = o[j] => i = j}

CloseFailure(name) == "failed to close provider " \o name

RECURSIVE CloseFromAbort(_, _, _, _, _)
\* A Close that gives up at the first adapter whose Close fails.
CloseFromAbort(order, fails, i, log, lastErr) ==
    IF i > Len(order) THEN [log |-> log, err |-> lastErr]
    ELSE IF order[i] \in fails
         THEN [log |-> Append(log, order[i]), err |-> CloseFailure(order[i])]
         ELSE CloseFromAbort(order, fails, i + 1, Append(log, order[i]), lastErr)

RECURSIVE CloseFromFirstErr(_, _, _, _, _)
\* A Close that keeps the first failure instead of the last.
CloseFromFirstErr(order, fails, i, log, lastErr) ==
    IF i > Len(order) THEN [log |-> log, err |-> lastErr]
    ELSE CloseFromFirstErr(order, fails, i + 1, Append(log, order[i]),
                           IF order[i] \in fails /\ lastErr = "nil"
                           THEN CloseFailure(order[i]) ELSE lastErr)

RECURSIVE CloseFrom(_, _, _, _, _)
\* The loop of Registry.Close from the i-th name of the iteration order on:
\* every adapter is closed, lastErr is overwritten by each failure.
CloseFrom(order, fails, i, log, lastErr) ==
    IF i > Len(order) THEN [log |-> log, err |-> lastErr]
    ELSE CloseFrom(order, fails, i + 1, Append(log, order[i]),
                   IF order[i] \in fails THEN CloseFailure(order[i]) ELSE lastErr)

\* A RegisterProvider without the nil check.
RegisterProviderNoNilCheck(reg, name, adapter) ==
    [providers |-> [k \in DOMAIN reg \cup {name} |-> IF k = name THEN adapter ELSE reg[k]],
     err |-> "nil"]

\* The body of Registry.RegisterProvider: the mapping afterwards and the error.
RegisterProvider(reg, name, adapter) ==
    IF adapter = "nil"
    THEN [providers |-> reg, err |-> "provider cannot be nil"]
    ELSE [providers |-> [k \in DOMAIN reg \cup {name} |->
                            IF k = name THEN adapter ELSE reg[k]],
          err |-> "nil"]

(***************************************************************************)
(* Concurrent calls on one registry under r.mu (sync.RWMutex).             *)
(* A Lock call announces itself and then waits for the read locks held to  *)
(* be released; from the announcement until its Unlock every RLock call    *)
(* blocks; Unlock hands the read lock to the RLock calls blocked so far.   *)
(***************************************************************************)

\* The rule lists, registries, models and registrations the goroutines use.
LockRules == {<<>>, <<[Prefix |-> "gpt-", Provider |-> "openai"]>>}

LockRegistries ==
    {[k \in {"gemini"} |-> "GeminiProvider"],
     [k \in {"openai", "gemini"} |-> IF k = "openai" THEN "OpenAIProvider" ELSE "GeminiProvider"]}

LockModels == {"gpt-4", "gemini-pro"}

LockNames == {"openai", "azure"}

\* The name GetProvider is called with: registered at the start in one of the
\* registries and not in the other.
LockLookupNames == {"openai"}

SetPc(t, pc) == [thr EXCEPT ![t].pc = pc]

\* r.mu.RLock() by goroutine t: taken at once unless a Lock is announced.
RLock(t, held, waiting) ==
    IF rwWriter = 0
    THEN /\ rwReaders' = rwReaders + 1
         /\ thr' = SetPc(t, held)
    ELSE /\ rwReaders' = rwReaders
         /\ thr' = SetPc(t, waiting)

\* What a registry call leaves alone.
notLockVars == <<relayVars, routeModel, routeResult, closeVars, reqVars, capVars,
                 xlatVars, bootVars>>

\* Goroutine t calls Route(m).
CallRouteStart(t, m) ==
    /\ thr[t].op = "idle"
    /\ thr' = [thr EXCEPT ![t] = [IdleThread EXCEPT !.op = "Route", !.pc = "lock", !.model = m]]
    /\ UNCHANGED <<rwReaders, rwWriter, cfgRoutes, providers>>
    /\ UNCHANGED notLockVars

\* Goroutine t calls ListProviders().
CallListStart(t) ==
    /\ thr[t].op = "idle"
    /\ thr' = [thr EXCEPT ![t] = [IdleThread EXCEPT !.op = "ListProviders", !.pc = "lock"]]
    /\ UNCHANGED <<rwReaders, rwWriter, cfgRoutes, providers>>
    /\ UNCHANGED notLockVars

\* Goroutine t calls GetProvider(nm).
CallGetStart(t, nm) ==
    /\ thr[t].op = "idle"
    /\ thr' = [thr EXCEPT ![t] = [IdleThread EXCEPT !.op = "GetProvider", !.pc = "lock", !.name = nm]]
    /\ UNCHANGED <<rwReaders, rwWriter, cfgRoutes, providers>>
    /\ UNCHANGED notLockVars

\* Goroutine t calls RegisterProvider(nm, ad).
CallRegisterStart(t, nm, ad) ==
    /\ thr[t].op = "idle"
    /\ thr' = [thr EXCEPT ![t] = [IdleThread EXCEPT !.op = "RegisterProvider", !.pc = "lock",
                                                    !.name = nm, !.adapter = ad]]
    /\ UNCHANGED <<rwReaders, rwWriter, cfgRoutes, providers>>
    /\ UNCHANGED notLockVars

\* Goroutine t calls Close().
CallCloseStart(t) ==
    /\ thr[t].op = "idle"
    /\ thr' = [thr EXCEPT ![t] = [IdleThread EXCEPT !.op = "Close", !.pc = "lock"]]
    /\ UNCHANGED <<rwReaders, rwWriter, cfgRoutes, providers>>
    /\ UNCHANGED notLockVars

\* Route: r.mu.RLock().
RouteRLock(t) ==
    /\ thr[t].op = "Route" /\ thr[t].pc = "lock"
    /\ RLock(t, "rules", "rwait")
    /\ UNCHANGED <<rwWriter, cfgRoutes, providers>>
    /\ UNCHANGED notLockVars

\* Route: the loop over cfg.Routes; with no matching rule it goes on to call
\* GetProviderForModel, still holding its read lock.
RouteRules(t) ==
    /\ thr[t].op = "Route" /\ thr[t].pc = "rules"
    /\ IF \E i \in 1..Len(cfgRoutes) : HasPrefix(thr[t].model, cfgRoutes[i].Prefix)
       THEN thr' = [thr EXCEPT ![t].pc = "unlock",
                               ![t].ret = RouteFrom(cfgRoutes, providers, thr[t].model, 1)]
       ELSE thr' = SetPc(t, "lock2")
    /\ UNCHANGED <<rwReaders, rwWriter, cfgRoutes, providers>>
    /\ UNCHANGED notLockVars

\* GetProviderForModel, called by Route: r.mu.RLock() a second time.
GetProviderRLock(t) ==
    /\ thr[t].op = "Route" /\ thr[t].pc = "lock2"
    /\ RLock(t, "heur", "rwait2")
    /\ UNCHANGED <<rwWriter, cfgRoutes, providers>>
    /\ UNCHANGED notLockVars

\* GetProviderForModel: the heuristics, then its deferred RUnlock.
GetProviderBody(t) ==
    /\ thr[t].op = "Route" /\ thr[t].pc = "heur"
    /\ thr' = [thr EXCEPT ![t].pc = "unlock",
                           ![t].ret = GetProviderForModel(providers, thr[t].model)]
    /\ rwReaders' = rwReaders - 1
    /\ UNCHANGED <<rwWriter, cfgRoutes, providers>>
    /\ UNCHANGED notLockVars

\* Route: the deferred RUnlock; the call returns.
RouteReturn(t) ==
    /\ thr[t].op = "Route" /\ thr[t].pc = "unlock"
    /\ thr' = [thr EXCEPT ![t] = IdleThread]
    /\ rwReaders' = rwReaders - 1
    /\ UNCHANGED <<rwWriter, cfgRoutes, providers>>
    /\ UNCHANGED notLockVars

\* ListProviders: r.mu.RLock().
ListRLock(t) ==
    /\ thr[t].op = "ListProviders" /\ thr[t].pc = "lock"
    /\ RLock(t, "list", "rwait")
    /\ UNCHANGED <<rwWriter, cfgRoutes, providers>>
    /\ UNCHANGED notLockVars

\* ListProviders: collects the infos, RUnlock, returns.
ListReturn(t) ==
    /\ thr[t].op = "ListProviders" /\ thr[t].pc = "list"
    /\ thr' = [thr EXCEPT ![t] = IdleThread]
    /\ rwReaders' = rwReaders - 1
    /\ UNCHANGED <<rwWriter, cfgRoutes, providers>>
    /\ UNCHANGED notLockVars

\* provider, exists := r.providers[name]; exists is err = "nil".
GetProvider(reg, name) ==
    IF name \in DOMAIN reg
    THEN [provider |-> reg[name], err |-> "nil"]
    ELSE Failed("not found")

\* GetProvider: r.mu.RLock().
GetRLock(t) ==
    /\ thr[t].op = "GetProvider" /\ thr[t].pc = "lock"
    /\ RLock(t, "get", "rwait")
    /\ UNCHANGED <<rwWriter, cfgRoutes, providers>>
    /\ UNCHANGED notLockVars

\* GetProvider: the map lookup.
GetLookup(t) ==
    /\ thr[t].op = "GetProvider" /\ thr[t].pc = "get"
    /\ thr' = [thr EXCEPT ![t].pc = "unlock", ![t].ret = GetProvider(providers, thr[t].name)]
    /\ UNCHANGED <<rwReaders, rwWriter, cfgRoutes, providers>>
    /\ UNCHANGED notLockVars

\* GetProvider: the deferred RUnlock; the call returns.
GetReturn(t) ==
    /\ thr[t].op = "GetProvider" /\ thr[t].pc = "unlock"
    /\ thr' = [thr EXCEPT ![t] = IdleThread]
    /\ rwReaders' = rwReaders - 1
    /\ UNCHANGED <<rwWriter, cfgRoutes, providers>>
    /\ UNCHANGED notLockVars

\* RegisterProvider or Close: r.mu.Lock() announces the writer (one at a time).
WriterLock(t) ==
    /\ thr[t].op \in {"RegisterProvider", "Close"} /\ thr[t].pc = "lock"
    /\ rwWriter = 0
    /\ rwWriter' = t
    /\ thr' = SetPc(t, "wwait")
    /\ UNCHANGED <<rwReaders, cfgRoutes, providers>>
    /\ UNCHANGED notLockVars

\* A Lock that returns while read locks are still held.
WriterAcquireNoWait(t) ==
    /\ thr[t].pc = "wwait"
    /\ thr' = SetPc(t, "body")
    /\ UNCHANGED <<rwReaders, rwWriter, cfgRoutes, providers>>
    /\ UNCHANGED notLockVars

\* r.mu.Lock() returns once every read lock has been released.
WriterAcquire(t) ==
    /\ thr[t].pc = "wwait"
    /\ rwReaders = 0
    /\ thr' = SetPc(t, "body")
    /\ UNCHANGED <<rwReaders, rwWriter, cfgRoutes, providers>>
    /\ UNCHANGED notLockVars

\* RegisterProvider: the nil check and the store.
RegisterBody(t) ==
    /\ thr[t].op = "RegisterProvider" /\ thr[t].pc = "body"
    /\ LET r == RegisterProvider(providers, thr[t].name, thr[t].adapter)
       IN /\ providers' = r.providers
          /\ thr' = [thr EXCEPT ![t].pc = "unlock", ![t].ret = Failed(r.err)]
    /\ UNCHANGED <<rwReaders, rwWriter, cfgRoutes>>
    /\ UNCHANGED notLockVars

\* Close: the loop over r.providers; which adapters fail to close and the
\* order of the iteration are not in the registry's hands.
CloseBody(t) ==
    /\ thr[t].op = "Close" /\ thr[t].pc = "body"
    /\ \E order \in Orders(DOMAIN providers), fails \in SUBSET DOMAIN providers :
          thr' = [thr EXCEPT ![t].pc = "unlock",
                             ![t].ret = Failed(CloseFrom(order, fails, 1, <<>>, "nil").err)]
    /\ UNCHANGED <<rwReaders, rwWriter, cfgRoutes, providers>>
    /\ UNCHANGED notLockVars

\* The deferred r.mu.Unlock(): the RLock calls blocked so far get the read
\* lock, and the call returns.
WriterUnlock(t) ==
    /\ thr[t].op \in {"RegisterProvider", "Close"} /\ thr[t].pc = "unlock"
    /\ rwWriter' = 0
    /\ rwReaders' = Cardinality({u \in Threads : thr[u].pc \in {"rwait", "rwait2"}})
    /\ thr' = [u \in Threads |->
                 IF u = t THEN IdleThread
                 ELSE IF thr[u].pc = "rwait2" THEN [thr[u] EXCEPT !.pc = "heur"]
                 ELSE IF thr[u].pc = "rwait" /\ thr[u].op = "Route"
                      THEN [thr[u] EXCEPT !.pc = "rules"]
                 ELSE IF thr[u].pc = "rwait" /\ thr[u].op = "GetProvider"
                      THEN [thr[u] EXCEPT !.pc = "get"]
                 ELSE IF thr[u].pc = "rwait" THEN [thr[u] EXCEPT !.pc = "list"]
                 ELSE thr[u]]
    /\ UNCHANGED <<cfgRoutes, providers>>
    /\ UNCHANGED notLockVars

LockInit ==
    /\ cfgRoutes \in LockRules
    /\ providers \in LockRegistries
    /\ routeModel = ""
    /\ routeResult = Failed("none")
    /\ LockIdle
    /\ RelayIdle
    /\ CloseIdle
    /\ ReqIdle
    /\ CapIdle
    /\ XlatIdle
    /\ BootIdle

LockNext ==
    \/ \E t \in Threads, m \in LockModels : CallRouteStart(t, m)
    \/ \E t \in Threads : CallListStart(t)
    \/ \E t \in Threads, nm \in LockNames, ad \in Adapters \cup {"nil"} :
           CallRegisterStart(t, nm, ad)
    \/ \E t \in Threads : CallCloseStart(t)
    \/ \E t \in Threads : RouteRLock(t)
    \/ \E t \in Threads : RouteRules(t)
    \/ \E t \in Threads : GetProviderRLock(t)
    \/ \E t \in Threads : GetProviderBody(t)
    \/ \E t \in Threads : RouteReturn(t)
    \/ \E t \in Threads : ListRLock(t)
    \/ \E t \in Threads : ListReturn(t)
    \/ \E t \in Threads, nm \in LockLookupNames : CallGetStart(t, nm)
    \/ \E t \in Threads : GetRLock(t)
    \/ \E t \in Threads : GetLookup(t)
    \/ \E t \in Threads : GetReturn(t)
    \/ \E t \in Threads : WriterLock(t)
    \/ \E t \in Threads : WriterAcquire(t)
    \/ \E t \in Threads : RegisterBody(t)
    \/ \E t \in Threads : CloseBody(t)
    \/ \E t \in Threads : WriterUnlock(t)

LockSpec == LockInit /\ [][LockNext]_vars

\* C12: under any interleaving of Route, ListProviders, RegisterProvider and
\* Close calls no lookup and registration wait on each other: there is no
\* state in which a Route call that holds its read lock is blocked in the
\* RLock of GetProviderForModel while an announced Lock waits for the read
\* locks to be released.
C12_NoLookupWriterDeadlock ==
    ~ \E t, u \in Threads :
        /\ thr[t].op = "Route" /\ thr[t].pc = "rwait2"
        /\ thr[u].pc = "wwait"
        /\ rwWriter = u

\* C13: RegisterProvider(name, adapter) with a nil adapter returns an error and
\* leaves the mapping as it was; with an adapter it returns no error and the
\* mapping afterwards holds that adapter under name, every other entry being
\* what it was.
C13_RegisterProvider ==
    [][\A t \in Threads :
          (thr[t].op = "RegisterProvider" /\ thr[t].pc = "body" /\ thr'[t].pc = "unlock") =>
              IF thr[t].adapter = "nil"
              THEN /\ thr'[t].ret.err # "nil"
                   /\ providers' = providers
              ELSE /\ thr'[t].ret.err = "nil"
                   /\ DOMAIN providers' = DOMAIN providers \cup {thr[t].name}
                   /\ providers'[thr[t].name] = thr[t].adapter
                   /\ \A k \in DOMAIN providers \ {thr[t].name} :
                          providers'[k] = providers[k]]_vars

\* A registration has just replaced the adapter under "openai" (which only
\* ever starts as OpenAIProvider) while other names are registered.
C13_Witness ==
    \E t \in Threads :
        /\ thr[t].op = "RegisterProvider" /\ thr[t].pc = "unlock"
        /\ thr[t].name = "openai" /\ thr[t].adapter = "GeminiProvider"
        /\ thr[t].ret.err = "nil"
        /\ DOMAIN providers = {"openai", "gemini", "azure"}
        /\ providers["openai"] = "GeminiProvider"
        /\ providers["azure"] = "OpenAIProvider"

\* A registration of a nil adapter has just been refused.
C13_WitnessNil ==
    \E t \in Threads :
        /\ thr[t].op = "RegisterProvider" /\ thr[t].pc = "unlock"
        /\ thr[t].adapter = "nil"
        /\ thr[t].ret.err = "provider cannot be nil"
        /\ "azure" \notin DOMAIN providers

(***************************************************************************)
(* Registry.Close on its own                                               *)
(***************************************************************************)

\* Close() on the registry: the map iteration takes some order, and the
\* adapters registered under the names in fails fail to close.
CallClose(order, fails) ==
    /\ LET r == CloseFrom(order, fails, 1, <<>>, "nil")
       IN /\ closeLog' = r.log
          /\ closeErr' = r.err
    /\ closeFailed' = fails
    /\ UNCHANGED <<relayVars, routeVars, lockVars, reqVars, capVars, xlatVars, bootVars>>

CloseInit ==
    /\ cfgRoutes = <<>>
    /\ providers \in Registries
    /\ routeModel = ""
    /\ routeResult = Failed("none")
    /\ CloseIdle
    /\ RelayIdle
    /\ LockIdle
    /\ ReqIdle
    /\ CapIdle
    /\ XlatIdle
    /\ BootIdle

CloseNext ==
    \E order \in Orders(DOMAIN providers), fails \in SUBSET DOMAIN providers :
        CallClose(order, fails)

CloseSpec == CloseInit /\ [][CloseNext]_vars

\* The position in the close log of the last adapter whose Close failed.
LastFailure ==
    CHOOSE i \in DOMAIN closeLog :
        /\ closeLog[i] \in closeFailed
        /\ \A j \in DOMAIN closeLog : closeLog[j] \in closeFailed => j <= i

\* C14: after a Close call every registered adapter has been closed exactly
\* once, whether or not some closes failed; the call returns nil exactly when
\* no close failed, and otherwise the error of the last failing close.
C14_CloseAll ==
    closeErr # "none" =>
        /\ Len(closeLog) = Cardinality(DOMAIN providers)
        /\ \A k \in DOMAIN providers :
               Cardinality({i \in DOMAIN closeLog : closeLog[i] = k}) = 1
        /\ (closeErr = "nil") <=> (closeFailed = {})
        /\ closeFailed # {} => closeErr = CloseFailure(closeLog[LastFailure])

\* Three adapters; the first two closed fail and the third is still closed.
C14_Witness ==
    /\ closeLog = <<"openai", "gemini", "azure">>
    /\ closeFailed = {"openai", "gemini"}
    /\ closeErr = CloseFailure("gemini")

(***************************************************************************)
(* ValidateStandardRequest.  Temperature and top-p are in tenths (20 is    *)
(* 2.0); an optional field is <<>> when nil and <<v>> when it points to v. *)
(***************************************************************************)

\* RoleSystem, RoleUser, RoleAssistant, RoleFunction.
ValidRoles == {"system", "user", "assistant", "function"}

MsgRoles == ValidRoles \cup {"", "bogus"}

\* Messages: empty or non-empty content, with or without a function call.
ValMessages ==
    {[Role |-> r, Content |-> c.content, FunctionCall |-> c.fc] :
        r \in MsgRoles,
        c \in {[content |-> "", fc |-> "nil"], [content |-> "hi", fc |-> "nil"],
               [content |-> "", fc |-> "fc"]}}

ValMessageLists == UNION {[1..k -> ValMessages] : k \in 0..MaxMsgs}

Temperatures == {<<>>, <<-1>>, <<0>>, <<20>>, <<21>>}

TopPs == {<<>>, <<-1>>, <<0>>, <<10>>, <<11>>}

MaxTokenss == {<<>>, <<0>>, <<1>>}

ValRequests ==
    {NilRequest} \cup
    [isNil : {FALSE}, Model : {"", "gpt-4"}, Messages : ValMessageLists,
     Temperature : Temperatures, TopP : TopPs, MaxTokens : MaxTokenss]

MessageError(i, what) == "message " \o ToString(i - 1) \o ": " \o what

RECURSIVE ValidateMessages(_, _)
\* The message loop of ValidateStandardRequest from the i-th message on.
ValidateMessages(msgs, i) ==
    IF i > Len(msgs) THEN "nil"
    ELSE IF msgs[i].Role = "" THEN MessageError(i, "role is required")
    ELSE IF msgs[i].Content = "" /\ msgs[i].FunctionCall = "nil"
         THEN MessageError(i, "content or function_call is required")
    ELSE IF msgs[i].Role \notin ValidRoles
         THEN MessageError(i, "invalid role '" \o msgs[i].Role \o "'")
    ELSE ValidateMessages(msgs, i + 1)

\* A validation that rejects the upper boundary of the temperature range.
ValidateStandardRequestOpenRange(r) ==
    IF r.isNil THEN "request cannot be nil"
    ELSE IF r.Model = "" THEN "model is required"
    ELSE IF Len(r.Messages) = 0 THEN "at least one message is required"
    ELSE IF ValidateMessages(r.Messages, 1) # "nil" THEN ValidateMessages(r.Messages, 1)
    ELSE IF r.Temperature # <<>> /\ (r.Temperature[1] < 0 \/ r.Temperature[1] >= 20)
         THEN "temperature must be between 0 and 2"
    ELSE IF r.TopP # <<>> /\ (r.TopP[1] < 0 \/ r.TopP[1] > 10)
         THEN "top_p must be between 0 and 1"
    ELSE IF r.MaxTokens # <<>> /\ r.MaxTokens[1] <= 0 THEN "max_tokens must be positive"
    ELSE "nil"

\* ValidateStandardRequest: the error returned ("nil": none).
ValidateStandardRequest(r) ==
    IF r.isNil THEN "request cannot be nil"
    ELSE IF r.Model = "" THEN "model is required"
    ELSE IF Len(r.Messages) = 0 THEN "at least one message is required"
    ELSE IF ValidateMessages(r.Messages, 1) # "nil" THEN ValidateMessages(r.Messages, 1)
    ELSE IF r.Temperature # <<>> /\ (r.Temperature[1] < 0 \/ r.Temperature[1] > 20)
         THEN "temperature must be between 0 and 2"
    ELSE IF r.TopP # <<>> /\ (r.TopP[1] < 0 \/ r.TopP[1] > 10)
         THEN "top_p must be between 0 and 1"
    ELSE IF r.MaxTokens # <<>> /\ r.MaxTokens[1] <= 0 THEN "max_tokens must be positive"
    ELSE "nil"

\* A caller validates the request.
CallValidate ==
    /\ reqOp' = "Validate"
    /\ reqResult' = Outcome(ValidateStandardRequest(req), 0, 0, 0, <<>>)
    /\ UNCHANGED req
    /\ UNCHANGED <<relayVars, routeVars, lockVars, closeVars, capVars, xlatVars, bootVars>>

ValidateInit ==
    /\ req \in ValRequests
    /\ reqOp = "none"
    /\ reqResult = NoOutcome
    /\ RelayIdle
    /\ RouteIdle
    /\ LockIdle
    /\ CloseIdle
    /\ CapIdle
    /\ XlatIdle
    /\ BootIdle

ValidateNext == CallValidate

ValidateSpec == ValidateInit /\ [][ValidateNext]_vars

Validated == reqOp = "Validate"

C15_WitnessZero ==
    /\ Validated
    /\ reqResult.err = "max_tokens must be positive"
    /\ req.Temperature = <<0>>
    /\ req.TopP = <<0>>
    /\ req.MaxTokens = <<0>>

\* Whether message m fails one of the per-message checks.
MessageFails(m) ==
    \/ m.Role \notin {"system", "user", "assistant", "function"}
    \/ m.Content = "" /\ m.FunctionCall = "nil"

\* C16: when a message fails, the error reported is that of the first failing
\* message: missing role when its role is empty, invalid role when its role
\* is non-empty and not one of the four roles, whatever its content, and
\* missing content when its role is valid and it has neither content nor a
\* function call.
C16_ErrorKind ==
    (/\ Validated
     /\ ~req.isNil
     /\ req.Model # ""
     /\ \E i \in DOMAIN req.Messages : MessageFails(req.Messages[i])) =>
        LET i == CHOOSE j \in DOMAIN req.Messages :
                     /\ MessageFails(req.Messages[j])
                     /\ \A k \in 1..(j - 1) : ~MessageFails(req.Messages[k])
            m == req.Messages[i]
        IN reqResult.err =
              IF m.Role = "" THEN MessageError(i, "role is required")
              ELSE IF m.Role \notin {"system", "user", "assistant", "function"}
                   THEN MessageError(i, "invalid role '" \o m.Role \o "'")
              ELSE MessageError(i, "content or function_call is required")

(***************************************************************************)
(* The adapters' Generate and StreamGenerate, and the chat-completion      *)
(* handler in front of them.  The vendor's answer to a call is an input:   *)
(* vOk says whether the vendor call succeeds.                              *)
(***************************************************************************)

RECURSIVE ConvertFrom(_, _, _, _)
\* The loop of convertMessagesToParts from the i-th message on: systemContent
\* is the strings.Builder, parts the conversation parts so far.
ConvertFrom(msgs, i, systemContent, parts) ==
    IF i > Len(msgs) THEN [parts |-> parts, err |-> "nil"]
    ELSE IF msgs[i].Role = "system"
         THEN ConvertFrom(msgs, i + 1,
                          IF Len(systemContent) > 0
                          THEN systemContent \o "\n" \o msgs[i].Content
                          ELSE msgs[i].Content,
                          parts)
    ELSE IF msgs[i].Role = "user"
         THEN ConvertFrom(msgs, i + 1, "",
                          Append(parts, IF Len(systemContent) > 0
                                        THEN systemContent \o "\n\n" \o msgs[i].Content
                                        ELSE msgs[i].Content))
    ELSE IF msgs[i].Role = "assistant"
         THEN ConvertFrom(msgs, i + 1, systemContent, Append(parts, msgs[i].Content))
    ELSE [parts |-> <<>>, err |-> "unsupported message role: " \o msgs[i].Role]

convertMessagesToParts(msgs) == ConvertFrom(msgs, 1, "", <<>>)

\* A Gemini Generate that goes to the vendor without validating.
GeminiGenerateNoValidate(r, vOk) ==
    LET c == convertMessagesToParts(r.Messages)
    IN IF c.err # "nil"
       THEN Outcome("failed to convert messages: " \o c.err, 0, 0, 0, <<>>)
       ELSE IF ~vOk THEN Outcome("failed to generate content", 0, 1, 0, c.parts)
       ELSE Outcome("nil", 0, 1, 0, c.parts)

\* GeminiProvider.Generate.
GeminiGenerate(r, vOk) ==
    LET v == ValidateStandardRequest(r)
        c == convertMessagesToParts(r.Messages)
    IN IF v # "nil" THEN Outcome("invalid request: " \o v, 0, 0, 0, <<>>)
       ELSE IF c.err # "nil"
       THEN Outcome("failed to convert messages: " \o c.err, 0, 0, 0, <<>>)
       ELSE IF ~vOk THEN Outcome("failed to generate content", 0, 1, 0, c.parts)
       ELSE Outcome("nil", 0, 1, 0, c.parts)

\* GeminiProvider.StreamGenerate: the stream iterator, the pipe and the
\* producer goroutine are created after validation and conversion; a vendor
\* failure shows later, on the pipe.
GeminiStreamGenerate(r, vOk) ==
    LET v == ValidateStandardRequest(r)
        c == convertMessagesToParts(r.Messages)
    IN IF v # "nil" THEN Outcome("invalid request: " \o v, 0, 0, 0, <<>>)
       ELSE IF c.err # "nil"
       THEN Outcome("failed to convert messages: " \o c.err, 0, 0, 0, <<>>)
       ELSE Outcome("nil", 0, 1, 1, c.parts)

\* OpenAIProvider.Generate (transformRequest never fails).
OpenAIGenerate(r, vOk) ==
    LET v == ValidateStandardRequest(r)
    IN IF v # "nil" THEN Outcome("invalid request: " \o v, 0, 0, 0, <<>>)
       ELSE IF ~vOk THEN Outcome("openai completion error", 0, 1, 0, <<>>)
       ELSE Outcome("nil", 0, 1, 0, <<>>)

\* OpenAIProvider.StreamGenerate: the pipe and the producer goroutine are
\* created only when the vendor accepted the stream.
OpenAIStreamGenerate(r, vOk) ==
    LET v == ValidateStandardRequest(r)
    IN IF v # "nil" THEN Outcome("invalid request: " \o v, 0, 0, 0, <<>>)
       ELSE IF ~vOk THEN Outcome("openai start stream error", 0, 1, 0, <<>>)
       ELSE Outcome("nil", 0, 1, 1, <<>>)

\* p.Generate / p.StreamGenerate on the adapter of the given type.
Operate(adapter, stream, r, vOk) ==
    IF adapter = "GeminiProvider"
    THEN IF stream THEN GeminiStreamGenerate(r, vOk) ELSE GeminiGenerate(r, vOk)
    ELSE IF stream THEN OpenAIStreamGenerate(r, vOk) ELSE OpenAIGenerate(r, vOk)

OpName(adapter, stream) ==
    adapter \o (IF stream THEN ".StreamGenerate" ELSE ".Generate")

\* convertToStandardRequest: only model, role and content are copied.
convertToStandardRequest(in) ==
    [isNil |-> FALSE, Model |-> in.Model,
     Messages |-> [i \in DOMAIN in.Messages |->
                      [Role |-> in.Messages[i].Role, Content |-> in.Messages[i].Content,
                       FunctionCall |-> "nil"]],
     Temperature |-> <<>>, TopP |-> <<>>, MaxTokens |-> <<>>]

\* The POST /v1/chat/completions handler up to the start of the reply: the
\* status it answers with and what the adapter did.
Handle(reg, in, stream, vOk) ==
    IF in.Model = "" THEN Outcome("model is required", 400, 0, 0, <<>>)
    ELSE LET p == GetProviderForModel(reg, in.Model)
         IN IF p.err # "nil" THEN Outcome(p.err, 400, 0, 0, <<>>)
            ELSE LET o == Operate(p.provider, stream, convertToStandardRequest(in), vOk)
                 IN IF o.err # "nil" THEN [o EXCEPT !.status = 500]
                    ELSE [o EXCEPT !.status = 200]

\* A caller invokes Generate or StreamGenerate on an adapter (one operation
\* per request).
CallAdapter(adapter, stream, vOk) ==
    /\ reqOp = "none"
    /\ reqOp' = OpName(adapter, stream)
    /\ reqResult' = Operate(adapter, stream, req, vOk)
    /\ UNCHANGED <<req, providers, cfgRoutes, routeModel, routeResult>>
    /\ UNCHANGED <<relayVars, lockVars, closeVars, capVars, xlatVars, bootVars>>

\* A client posts the request to the handler.
CallHandler(stream, vOk) ==
    /\ reqOp = "none"
    /\ ~req.isNil
    /\ reqOp' = (IF stream THEN "Handler.stream" ELSE "Handler")
    /\ reqResult' = Handle(providers, req, stream, vOk)
    /\ UNCHANGED <<req, providers, cfgRoutes, routeModel, routeResult>>
    /\ UNCHANGED <<relayVars, lockVars, closeVars, capVars, xlatVars, bootVars>>

AdapterRequests ==
    {NilRequest} \cup
    [isNil : {FALSE}, Model : {"", "gpt-4", "gemini-pro", "unknown-model"},
     Messages : ValMessageLists, Temperature : {<<>>, <<21>>}, TopP : {<<>>},
     MaxTokens : {<<>>}]

AdapterInit ==
    /\ req \in AdapterRequests
    /\ reqOp = "none"
    /\ reqResult = NoOutcome
    /\ cfgRoutes = <<>>
    /\ providers \in LockRegistries
    /\ routeModel = ""
    /\ routeResult = Failed("none")
    /\ RelayIdle
    /\ LockIdle
    /\ CloseIdle
    /\ CapIdle
    /\ XlatIdle
    /\ BootIdle

AdapterNext ==
    \/ \E adapter \in Adapters, stream, vOk \in BOOLEAN : CallAdapter(adapter, stream, vOk)
    \/ \E stream, vOk \in BOOLEAN : CallHandler(stream, vOk)

AdapterSpec == AdapterInit /\ [][AdapterNext]_vars

AdapterOps == {OpName(a, st) : a \in Adapters, st \in BOOLEAN}

\* C17: on both adapters and for Generate and StreamGenerate, a request that
\* fails validation makes the operation return an error with no vendor call
\* issued and no pipe or producer created; a vendor call is only issued for a
\* request that passed validation (and, on Gemini, conversion).
C17_ValidateBeforeCall ==
    reqOp \in AdapterOps =>
        /\ ValidateStandardRequest(req) # "nil" =>
               /\ reqResult.err # "nil"
               /\ reqResult.vendorCalls = 0
               /\ reqResult.streams = 0
        /\ (reqResult.vendorCalls > 0 \/ reqResult.streams > 0) =>
               /\ ValidateStandardRequest(req) = "nil"
               /\ reqOp \in {OpName("GeminiProvider", st) : st \in BOOLEAN} =>
                      convertMessagesToParts(req.Messages).err = "nil"

\* An invalid request (no model) with convertible messages has been refused by
\* the Gemini adapter without a vendor call.
C17_Witness ==
    /\ reqOp = "GeminiProvider.Generate"
    /\ ~req.isNil
    /\ req.Model = ""
    /\ Len(req.Messages) = 1
    /\ req.Messages[1].Role = "user"
    /\ req.Messages[1].Content = "hi"
    /\ reqResult.err = "invalid request: model is required"
    /\ reqResult.vendorCalls = 0

\* A valid request has gone to the vendor and a stream has been created.
C17_WitnessCalled ==
    /\ reqOp = "OpenAIProvider.StreamGenerate"
    /\ reqResult.err = "nil"
    /\ reqResult.vendorCalls = 1
    /\ reqResult.streams = 1

Handled == reqOp \in {"Handler", "Handler.stream"}

ClientError(status) == 400 <= status /\ status <= 499

ServerError(status) == 500 <= status /\ status <= 599

\* C18: the handler answers an empty model and a routing failure with a
\* client error before any adapter operation, a request that fails validation
\* with a client error, and a failed vendor call with a server error.
C18_ErrorSurfacing ==
    Handled =>
        IF req.Model = "" \/ GetProviderForModel(providers, req.Model).err # "nil"
        THEN ClientError(reqResult.status) /\ reqResult.vendorCalls = 0
        ELSE IF ValidateStandardRequest(convertToStandardRequest(req)) # "nil"
        THEN ClientError(reqResult.status)
        ELSE (reqResult.vendorCalls > 0 /\ reqResult.err # "nil") =>
                 ServerError(reqResult.status)

(***************************************************************************)
(* MergeCapabilities                                                       *)
(***************************************************************************)

\* Capability descriptors: every field takes at least two values over the
\* set, and the model lists overlap and repeat.
Capabilities ==
    {[SupportsStreaming |-> st,
      SupportsFunctions |-> ~st,
      SupportsSystemRole |-> (mt = 4096),
      MaxTokens |-> mt,
      MaxContextLength |-> (IF ms = <<>> THEN 32768 ELSE 8192),
      SupportedModels |-> ms,
      SupportedParameters |-> (IF st THEN <<"temperature", "top_p">>
                               ELSE <<"top_p", "max_tokens">>)] :
        st \in BOOLEAN, mt \in {1024, 4096},
        ms \in {<<>>, <<"a", "b">>, <<"b", "c">>, <<"a", "a">>}}

CapabilityLists == UNION {[1..k -> Capabilities] : k \in 0..MaxCaps}

\* ProviderCapabilities{}.
ZeroCapabilities ==
    [SupportsStreaming |-> FALSE, SupportsFunctions |-> FALSE, SupportsSystemRole |-> FALSE,
     MaxTokens |-> 0, MaxContextLength |-> 0, SupportedModels |-> <<>>,
     SupportedParameters |-> <<>>]

RECURSIVE AppendUnseen(_, _, _)
\* One loop of mergeStringSlices: the strings of slice from the i-th on are
\* appended to result unless seen.
AppendUnseen(result, slice, i) ==
    IF i > Len(slice) THEN result
    ELSE AppendUnseen(IF \E j \in DOMAIN result : result[j] = slice[i]
                      THEN result ELSE Append(result, slice[i]),
                      slice, i + 1)

\* A merge of two slices that only appends.
mergeStringSlicesAppend(slice1, slice2) == slice1 \o slice2

mergeStringSlices(slice1, slice2) == AppendUnseen(AppendUnseen(<<>>, slice1, 1), slice2, 1)

RECURSIVE MergeFrom(_, _, _)
\* The loop of MergeCapabilities from the i-th descriptor on.
MergeFrom(capabilities, i, m) ==
    IF i > Len(capabilities) THEN m
    ELSE LET cap == capabilities[i]
         IN MergeFrom(capabilities, i + 1,
              [SupportsStreaming |-> m.SupportsStreaming \/ cap.SupportsStreaming,
               SupportsFunctions |-> m.SupportsFunctions \/ cap.SupportsFunctions,
               SupportsSystemRole |-> m.SupportsSystemRole \/ cap.SupportsSystemRole,
               MaxTokens |-> IF cap.MaxTokens > m.MaxTokens THEN cap.MaxTokens
                             ELSE m.MaxTokens,
               MaxContextLength |-> IF cap.MaxContextLength > m.MaxContextLength
                                    THEN cap.MaxContextLength ELSE m.MaxContextLength,
               SupportedModels |-> mergeStringSlices(m.SupportedModels, cap.SupportedModels),
               SupportedParameters |->
                   mergeStringSlices(m.SupportedParameters, cap.SupportedParameters)])

MergeCapabilities(capabilities) ==
    IF Len(capabilities) = 0 THEN ZeroCapabilities
    ELSE MergeFrom(capabilities, 2, capabilities[1])

\* A caller merges the descriptors.
CallMerge ==
    /\ merged = <<>>
    /\ merged' = <<MergeCapabilities(caps)>>
    /\ UNCHANGED caps
    /\ UNCHANGED <<relayVars, routeVars, lockVars, closeVars, reqVars, xlatVars, bootVars>>

MergeInit ==
    /\ caps \in CapabilityLists
    /\ merged = <<>>
    /\ XlatIdle
    /\ BootIdle
    /\ RelayIdle
    /\ RouteIdle
    /\ LockIdle
    /\ CloseIdle
    /\ ReqIdle

MergeNext == CallMerge

MergeSpec == MergeInit /\ [][MergeNext]_vars

RECURSIVE Concat(_, _)
\* The lists of field f of the first k descriptors, one after the other.
Concat(f, k) == IF k = 0 THEN <<>> ELSE Concat(f, k - 1) \o caps[k][f]

\* The position at which x first occurs in list.
FirstAt(list, x) == CHOOSE i \in DOMAIN list : list[i] = x /\ \A j \in 1..(i - 1) : list[j] # x

\* result is the union of the lists in all, in first-seen order, with no
\* element twice.
IsOrderedUnion(result, all) ==
    /\ {result[i] : i \in DOMAIN result} = {all[i] : i \in DOMAIN all}
    /\ \A i, j \in DOMAIN result : result[i] = result[j] => i = j
    /\ \A i, j \in DOMAIN result :
           i < j => FirstAt(all, result[i]) < FirstAt(all, result[j])

Max(S) == CHOOSE x \in S : \A y \in S : y <= x

\* C19: over two or more descriptors each boolean of the result is the OR of
\* the inputs', max-tokens and max-context-length are the inputs' maxima, and
\* each list is the union of the inputs' lists in first-seen order with no
\* element twice.
C19_Merge ==
    (merged # <<>> /\ Len(caps) >= 2) =>
        LET m == merged[1]
            I == DOMAIN caps
        IN /\ m.SupportsStreaming = (\E i \in I : caps[i].SupportsStreaming)
           /\ m.SupportsFunctions = (\E i \in I : caps[i].SupportsFunctions)
           /\ m.SupportsSystemRole = (\E i \in I : caps[i].SupportsSystemRole)
           /\ m.MaxTokens = Max({caps[i].MaxTokens : i \in I})
           /\ m.MaxContextLength = Max({caps[i].MaxContextLength : i \in I})
           /\ IsOrderedUnion(m.SupportedModels, Concat("SupportedModels", Len(caps)))
           /\ IsOrderedUnion(m.SupportedParameters, Concat("SupportedParameters", Len(caps)))

\* Models [a,b] and [b,c] have been merged into [a,b,c].
C19_Witness ==
    /\ merged # <<>>
    /\ Len(caps) = 2
    /\ caps[1].SupportedModels = <<"a", "b">>
    /\ caps[2].SupportedModels = <<"b", "c">>
    /\ merged[1].SupportedModels = <<"a", "b", "c">>
    /\ merged[1].MaxTokens = 4096
    /\ caps[1].MaxTokens = 1024

\* Three descriptors, the first with a repeated model, have been merged.
C19_WitnessRepeat ==
    /\ merged # <<>>
    /\ Len(caps) = 3
    /\ caps[1].SupportedModels = <<"a", "a">>
    /\ caps[3].SupportedModels = <<"b", "c">>
    /\ merged[1].SupportedModels = <<"a", "b", "c">>

(***************************************************************************)
(* convertMessagesToParts on its own.  The i-th message of a list has      *)
(* either no content or a content of its own, so that any content moved,   *)
(* dropped or joined shows in the parts.                                   *)
(***************************************************************************)

ContentOf(role, i) == role \o ToString(i)

ConvMessageLists ==
    UNION {{[i \in 1..k |-> [Role |-> roles[i],
                             Content |-> IF empty[i] THEN "" ELSE ContentOf(roles[i], i),
                             FunctionCall |-> "nil"]] :
               roles \in [1..k -> ValidRoles], empty \in [1..k -> BOOLEAN]} :
           k \in 0..MaxConvMsgs}

\* The Gemini adapter converts the request's messages.
CallConvert ==
    /\ reqOp = "none"
    /\ reqOp' = "convertMessagesToParts"
    /\ LET c == convertMessagesToParts(req.Messages)
       IN reqResult' = Outcome(c.err, 0, 0, 0, c.parts)
    /\ UNCHANGED req
    /\ UNCHANGED <<relayVars, routeVars, lockVars, closeVars, capVars, xlatVars, bootVars>>

ConvertInit ==
    /\ req \in [isNil : {FALSE}, Model : {"gemini-pro"}, Messages : ConvMessageLists,
                 Temperature : {<<>>}, TopP : {<<>>}, MaxTokens : {<<>>}]
    /\ reqOp = "none"
    /\ reqResult = NoOutcome
    /\ RelayIdle
    /\ RouteIdle
    /\ LockIdle
    /\ CloseIdle
    /\ CapIdle
    /\ XlatIdle
    /\ BootIdle

ConvertNext == CallConvert

ConvertSpec == ConvertInit /\ [][ConvertNext]_vars

Converted == reqOp = "convertMessagesToParts" /\ reqResult.err = "nil"

\* The part that message i of the request was converted to: parts hold the
\* user and assistant messages in order.
PartOf(i) ==
    reqResult.parts[Cardinality({j \in 1..i : req.Messages[j].Role \in {"user", "assistant"}})]

UserAt(i) == req.Messages[i].Role = "user"

FirstUser(i) == UserAt(i) /\ \A j \in 1..(i - 1) : ~UserAt(j)

RECURSIVE SystemBefore(_)
\* The contents of the system messages among the first k, joined by newlines.
SystemBefore(k) ==
    IF k = 0 THEN ""
    ELSE IF req.Messages[k].Role = "system"
         THEN IF Len(SystemBefore(k - 1)) > 0
              THEN SystemBefore(k - 1) \o "\n" \o req.Messages[k].Content
              ELSE req.Messages[k].Content
    ELSE SystemBefore(k - 1)

\* C20: the system content accumulated before the first user message is
\* prepended to it with a blank-line separator, and every later user message
\* is passed through with its content unchanged.
C20_OnlyFirstUser ==
    Converted =>
        \A i \in DOMAIN req.Messages :
            /\ FirstUser(i) =>
                   PartOf(i) = IF Len(SystemBefore(i)) > 0
                               THEN SystemBefore(i) \o "\n\n" \o req.Messages[i].Content
                               ELSE req.Messages[i].Content
            /\ (UserAt(i) /\ ~FirstUser(i)) => PartOf(i) = req.Messages[i].Content

(***************************************************************************)
(* The adapters' response transforms: what becomes of the finish reason of *)
(* each candidate (Gemini) or choice (OpenAI) of a vendor response.        *)
(***************************************************************************)

\* FinishReasonStop, FinishReasonLength, FinishReasonFunctionCall,
\* FinishReasonContentFilter.
FinishReasons == {"stop", "length", "function_call", "content_filter"}

\* genai.FinishReason: Unspecified is the zero value.
GeminiFinishReasons ==
    {"Unspecified", "Stop", "MaxTokens", "Safety", "Recitation", "Other"}

\* openai.FinishReason: "" when the choice carries none.
OpenAIFinishReasons ==
    {"", "stop", "length", "function_call", "tool_calls", "content_filter", "null"}

VendorResponses ==
    UNION {[vendor : {"gemini"}, reasons : [1..k -> GeminiFinishReasons]] \cup
           [vendor : {"openai"}, reasons : [1..k -> OpenAIFinishReasons]] :
               k \in 0..MaxChoices}

\* GeminiProvider.mapFinishReason.
mapFinishReason(reason) ==
    IF reason = "Stop" THEN "stop"
    ELSE IF reason = "MaxTokens" THEN "length"
    ELSE IF reason = "Safety" THEN "content_filter"
    ELSE "unknown"

\* The finish reason the Gemini transforms put in a choice (<<>>: nil).
GeminiChoiceReason(reason) ==
    IF reason # "Unspecified" THEN <<mapFinishReason(reason)>> ELSE <<>>

\* The finish reason the OpenAI transforms put in a choice (<<>>: nil).
OpenAIChoiceReason(reason) ==
    IF reason # "" THEN <<reason>> ELSE <<>>

\* transformResponse / transformStreamChunk of the vendor's adapter: the
\* error, the finish reason of every choice and the chunk's done flag.
Transform(resp, stream) ==
    IF resp.vendor = "gemini"
    THEN IF ~stream /\ Len(resp.reasons) = 0
         THEN [err |-> "no candidates in response", reasons |-> <<>>, done |-> FALSE]
         ELSE [err |-> "nil",
               reasons |-> [i \in DOMAIN resp.reasons |-> GeminiChoiceReason(resp.reasons[i])],
               done |-> stream /\ Len(resp.reasons) > 0 /\ resp.reasons[1] # "Unspecified"]
    ELSE [err |-> "nil",
          reasons |-> [i \in DOMAIN resp.reasons |-> OpenAIChoiceReason(resp.reasons[i])],
          done |-> stream /\ Len(resp.reasons) > 0 /\ resp.reasons[1] # ""]

\* An adapter transforms a vendor response (stream: a stream chunk).
CallTransform(stream) ==
    /\ xlatOp = "none"
    /\ xlatIn # <<>>
    /\ xlatOp' = xlatIn[1].vendor \o
                     (IF stream THEN ".transformStreamChunk" ELSE ".transformResponse")
    /\ xlatOut' = <<Transform(xlatIn[1], stream)>>
    /\ UNCHANGED xlatIn
    /\ UNCHANGED <<relayVars, routeVars, lockVars, closeVars, reqVars, capVars, bootVars>>

FinishInit ==
    /\ xlatOp = "none"
    /\ xlatIn \in {<<r>> : r \in VendorResponses}
    /\ xlatOut = <<>>
    /\ RelayIdle
    /\ RouteIdle
    /\ LockIdle
    /\ CloseIdle
    /\ ReqIdle
    /\ CapIdle
    /\ BootIdle

FinishNext == \E stream \in BOOLEAN : CallTransform(stream)

FinishSpec == FinishInit /\ [][FinishNext]_vars

Transformed == xlatOut # <<>> /\ xlatOut[1].err = "nil"

\* C21: every finish reason an adapter places in a response or a stream
\* chunk is one of stop, length, function_call, content_filter, whatever
\* finish reason the vendor reported.
C21_FinishVocabulary ==
    Transformed =>
        \A i \in DOMAIN xlatOut[1].reasons :
            xlatOut[1].reasons[i] # <<>> =>
                xlatOut[1].reasons[i][1] \in {"stop", "length", "function_call",
                                              "content_filter"}

(***************************************************************************)
(* NewRegistry: the registry as built from the configuration's API keys,   *)
(* and the calls made on it.                                               *)
(***************************************************************************)

\* The vendors NewRegistry knows.
Vendors == {"openai", "gemini"}

ApiKeys == {"", "sk-test"}

AdapterOf(v) == IF v = "openai" THEN "OpenAIProvider" ELSE "GeminiProvider"

\* A NewRegistry that constructs both adapters whatever the keys.
NewRegistryAllVendors(keys, geminiOk) ==
    IF ~geminiOk
    THEN [providers |-> <<>>, err |-> "failed to create Gemini provider"]
    ELSE [providers |-> [v \in Vendors |-> AdapterOf(v)], err |-> "nil"]

\* NewRegistry: geminiOk says whether genai.NewClient succeeds when called
\* (NewOpenAIProvider only fails on an empty key, which is never passed).
NewRegistry(keys, geminiOk) ==
    IF keys.gemini # "" /\ ~geminiOk
    THEN [providers |-> <<>>, err |-> "failed to create Gemini provider"]
    ELSE [providers |-> [v \in {w \in Vendors : keys[w] # ""} |-> AdapterOf(v)],
          err |-> "nil"]

\* Route on the registry NewRegistry returned.
BootRoute(m) ==
    /\ regErr = "nil"
    /\ routeModel' = m
    /\ routeResult' = Route(cfgRoutes, providers, m)
    /\ UNCHANGED <<cfgRoutes, providers, bootVars>>
    /\ UNCHANGED <<relayVars, lockVars, closeVars, reqVars, capVars, xlatVars>>

\* ListProviders on the registry NewRegistry returned: one info per map
\* entry, in the order of the map iteration.
BootList(order) ==
    /\ regErr = "nil"
    /\ listed' = <<order>>
    /\ UNCHANGED <<cfgKeys, regErr, fmResult>>
    /\ UNCHANGED <<relayVars, routeVars, lockVars, closeVars, reqVars, capVars, xlatVars>>

BootInit ==
    /\ cfgRoutes \in RuleLists
    /\ cfgKeys \in [Vendors -> ApiKeys]
    /\ \E geminiOk \in BOOLEAN :
          /\ providers = NewRegistry(cfgKeys, geminiOk).providers
          /\ regErr = NewRegistry(cfgKeys, geminiOk).err
    /\ routeModel = ""
    /\ routeResult = Failed("none")
    /\ listed = <<>>
    /\ fmResult = <<>>
    /\ RelayIdle
    /\ LockIdle
    /\ CloseIdle
    /\ ReqIdle
    /\ CapIdle
    /\ XlatIdle

BootNext ==
    \/ \E m \in Models : BootRoute(m)
    \/ \E order \in Orders(DOMAIN providers) : BootList(order)

BootSpec == BootInit /\ [][BootNext]_vars

\* The vendors whose configured API key is non-empty.
Configured == {v \in {"openai", "gemini"} : cfgKeys[v] # ""}

\* C22: the registry NewRegistry returns holds exactly the vendors with a
\* non-empty API key; a Route whose first matching rule names a vendor
\* without key fails with provider-not-configured, and ListProviders returns
\* one entry per configured vendor.
C22_RegisteredIffKey ==
    regErr = "nil" =>
        /\ DOMAIN providers = Configured
        /\ (Routed /\ Matching(cfgRoutes, routeModel) # {}) =>
               LET rt == cfgRoutes[FirstMatch(cfgRoutes, routeModel)]
               IN (rt.Provider \in {"openai", "gemini"} /\ cfgKeys[rt.Provider] = "") =>
                      routeResult = [provider |-> "nil", err |-> "provider not configured"]
        /\ listed # <<>> =>
               /\ Len(listed[1]) = Cardinality(Configured)
               /\ {listed[1][i] : i \in DOMAIN listed[1]} = Configured

\* With only the Gemini key configured, a model whose first matching rule
\* names openai has been refused, and ListProviders has returned one entry.
C22_Witness ==
    /\ regErr = "nil"
    /\ cfgKeys["openai"] = "" /\ cfgKeys["gemini"] # ""
    /\ routeModel = "gpt-4"
    /\ Len(cfgRoutes) = 2
    /\ cfgRoutes[1] = [Prefix |-> "gpt-", Provider |-> "openai"]
    /\ cfgRoutes[2] = [Prefix |-> "g", Provider |-> "gemini"]
    /\ routeResult = [provider |-> "nil", err |-> "provider not configured"]
    /\ listed = << <<"gemini">> >>

(***************************************************************************)
(* The chat-completion endpoint's choice of provider: r.ForModel(in.Model) *)
(***************************************************************************)

\* Registry.ForModel: the heuristics of GetProviderForModel, nothing else.
ForModel(reg, model) == GetProviderForModel(reg, model)

\* The handler resolves the provider for a request's model.
HandlerForModel(m) ==
    /\ routeModel' = m
    /\ fmResult' = <<ForModel(providers, m)>>
    /\ UNCHANGED <<cfgRoutes, providers, routeResult, cfgKeys, regErr, listed>>
    /\ UNCHANGED <<relayVars, lockVars, closeVars, reqVars, capVars, xlatVars>>

EndpointInit ==
    /\ cfgRoutes \in RuleLists
    /\ providers \in Registries
    /\ routeModel = ""
    /\ routeResult = Failed("none")
    /\ BootIdle
    /\ RelayIdle
    /\ LockIdle
    /\ CloseIdle
    /\ ReqIdle
    /\ CapIdle
    /\ XlatIdle

EndpointNext == \E m \in Models : HandlerForModel(m)

EndpointSpec == EndpointInit /\ [][EndpointNext]_vars

\* C23: the provider (or failure) the endpoint resolves a request's model to
\* is the one Route selects from the configured rules: the first matching
\* rule, and the heuristics only when no rule matches.
C23_EndpointUsesRules ==
    fmResult # <<>> => fmResult[1] = Route(cfgRoutes, providers, routeModel)

(***************************************************************************)
(* The Gemini adapter's max-tokens parameter: int32 of req.MaxTokens.       *)
(* A Go int is 64 bits wide; it is written as four 16-bit limbs, least     *)
(* significant first, in two's complement.                                 *)
(***************************************************************************)

\* The base of a limb: 2^16.
LimbBase == 65536

\* The largest int32: 2^31 - 1.
MaxInt32 == 2147483647

\* Values of *req.MaxTokens: small ones, the int32 boundary on both sides,
\* multiples of 2^32 and beyond, zero and negative ones.
GoInts ==
    {<<l0, l1, l2, l3>> :
        l0 \in {0, 1, 65535}, l1 \in {0, 1, 32767, 32768, 65535},
        l2 \in {0, 1}, l3 \in {0, 1, 32768}}

\* x > 0 for a Go int x.
IsPositive(x) == x[4] < 32768 /\ x # <<0, 0, 0, 0>>

\* int32(x): the low 32 bits of x, read as a signed 32-bit integer.
Int32(x) ==
    IF x[2] >= 32768
    THEN (x[2] - LimbBase) * LimbBase + x[1]
    ELSE x[2] * LimbBase + x[1]

\* The parameter step of GeminiProvider.Generate / StreamGenerate for a
\* request that is valid apart from its max-tokens: validation first, then
\* model.MaxOutputTokens = int32 of req.MaxTokens.
MaxOutputTokens(x) ==
    IF ~IsPositive(x)
    THEN [err |-> "invalid request: max_tokens must be positive", MaxOutputTokens |-> <<>>]
    ELSE [err |-> "nil", MaxOutputTokens |-> <<Int32(x)>>]

\* The Gemini adapter serves a request with the max-tokens value in xlatIn.
CallGeminiParams(stream) ==
    /\ xlatOp = "none"
    /\ xlatIn # <<>>
    /\ xlatOp' = (IF stream THEN "gemini.StreamGenerate" ELSE "gemini.Generate")
    /\ xlatOut' = <<MaxOutputTokens(xlatIn[1])>>
    /\ UNCHANGED xlatIn
    /\ UNCHANGED <<relayVars, routeVars, lockVars, closeVars, reqVars, capVars, bootVars>>

TokensInit ==
    /\ xlatOp = "none"
    /\ xlatIn \in {<<x>> : x \in GoInts}
    /\ xlatOut = <<>>
    /\ RelayIdle
    /\ RouteIdle
    /\ LockIdle
    /\ CloseIdle
    /\ ReqIdle
    /\ CapIdle
    /\ BootIdle

TokensNext == \E stream \in BOOLEAN : CallGeminiParams(stream)

TokensSpec == TokensInit /\ [][TokensNext]_vars

\* x fits in an int32 (x is positive).
FitsInt32(x) == x[4] = 0 /\ x[3] = 0 /\ x[2] < 32768

\* C24: for every positive max-tokens the vendor's max-output-tokens is
\* min(max-tokens, 2^31 - 1): the value itself when it fits in 32 bits and
\* 2^31 - 1 above, never zero, negative or a smaller positive value.
C24_MaxTokensClamped ==
    (xlatOut # <<>> /\ xlatOut[1].err = "nil") =>
        xlatOut[1].MaxOutputTokens =
            IF FitsInt32(xlatIn[1])
            THEN <<xlatIn[1][2] * LimbBase + xlatIn[1][1]>>
            ELSE <<MaxInt32>>

(***************************************************************************)
(* The reader's error protocol                                             *)
(***************************************************************************)

\* The reader is about to post a hard read error on errCh.
AboutToPost == readerPc = "check" /\ readErr \notin {"nil", "EOF"}

\* The post finds a free slot in errCh.
PostDoesNotBlock == AboutToPost => Len(errCh) < ErrChCap

\* This step is the post.
IsPost == Len(errCh') > Len(errCh)

C25_WitnessAfterReturn ==
    /\ errPosted
    /\ errCh # <<>>
    /\ handlerPc = "returned"
    /\ exitPath = "cancel"
    /\ chunks # <<>>

(***************************************************************************)
(* Lookups against registrations                                           *)
(***************************************************************************)

\* Goroutine t holds a read lock of r.mu.
ReadLockHeld(t) ==
    \/ thr[t].pc \in {"rules", "lock2", "rwait2", "heur", "list", "get"}
    \/ thr[t].op \in {"Route", "GetProvider"} /\ thr[t].pc = "unlock"

\* Goroutine t holds the write lock of r.mu.
WriteLockHeld(t) ==
    thr[t].op \in {"RegisterProvider", "Close"} /\ thr[t].pc \in {"body", "unlock"}

\* A goroutine inside a registration (or Close) is alone in the registry.
MutualExclusion ==
    \A t \in Threads :
        WriteLockHeld(t) =>
            \A u \in Threads : ~ReadLockHeld(u) /\ (u # t => ~WriteLockHeld(u))

\* Goroutine t's call returns in this step.
Returns(t, op) == thr[t].op = op /\ thr[t].pc = "unlock" /\ thr'[t].op = "idle"

\* C26: lookups and registrations exclude each other; the mapping changes
\* only by one whole registration, made by a goroutine that is alone in the
\* registry; and what a Route or GetProvider call returns is the answer of
\* the mapping as it is when the call returns, so that a lookup started after
\* RegisterProvider(name, p) returned and resolving to name returns the
\* adapter most recently registered under name.
C26_Linearizable ==
    /\ []MutualExclusion
    /\ [][/\ providers' # providers =>
               \E t \in Threads :
                   /\ thr[t].op = "RegisterProvider" /\ thr[t].pc = "body"
                   /\ thr[t].adapter # "nil"
                   /\ providers' = RegisterProvider(providers, thr[t].name,
                                                    thr[t].adapter).providers
                   /\ providers'[thr[t].name] = thr[t].adapter
          /\ \A t \in Threads :
               /\ Returns(t, "GetProvider") =>
                      /\ thr[t].ret = GetProvider(providers, thr[t].name)
                      /\ thr[t].ret.err = "nil" =>
                             thr[t].ret.provider = providers[thr[t].name]
               /\ Returns(t, "Route") =>
                      thr[t].ret = Route(cfgRoutes, providers, thr[t].model)]_vars

\* A GetProvider("openai") is about to return the Gemini adapter, which only
\* a completed registration can have put under that name, while another
\* goroutine's registration waits for the read lock to be released.
C26_Witness ==
    \E t, u \in Threads :
        /\ thr[t].op = "GetProvider" /\ thr[t].pc = "unlock"
        /\ thr[t].name = "openai"
        /\ thr[t].ret = [provider |-> "GeminiProvider", err |-> "nil"]
        /\ thr[u].op = "RegisterProvider" /\ thr[u].pc = "wwait"

\* A Route call resolved through the heuristics is about to return while a
\* registration waits.
C26_WitnessRoute ==
    \E t, u \in Threads :
        /\ thr[t].op = "Route" /\ thr[t].pc = "unlock"
        /\ thr[t].ret.err = "nil"
        /\ thr[u].op = "RegisterProvider" /\ thr[u].pc = "wwait"
        /\ thr[u].adapter # "nil"

(***************************************************************************)
(* System content through the Gemini conversion                            *)
(***************************************************************************)

\* C27: for every valid message sequence that the Gemini conversion accepts,
\* the content of every system message appears in some upstream part, also
\* when the system message comes after the last user message or when there
\* is no user message at all.
C27_SystemContentKept ==
    (Converted /\ ValidateStandardRequest(req) = "nil") =>
        \A i \in 1..Len(req.Messages) :
            req.Messages[i].Role = "system" =>
                \E p \in 1..Len(reqResult.parts) :
                    Contains(reqResult.parts[p], req.Messages[i].Content)

(***************************************************************************)
(* MergeCapabilities over fewer than two descriptors                       *)
(***************************************************************************)

NoDuplicate(list) == \A i, j \in DOMAIN list : list[i] = list[j] => i = j

\* C28: with zero descriptors the result is the empty descriptor; with one
\* descriptor the result has that descriptor's booleans and numbers and its
\* lists in first-seen order without duplicates; and for any number of
\* descriptors the result's lists never contain a duplicate.
C28_MergeFewerThanTwo ==
    merged # <<>> =>
        /\ Len(caps) = 0 => merged[1] = ZeroCapabilities
        /\ Len(caps) = 1 =>
               /\ merged[1].SupportsStreaming = caps[1].SupportsStreaming
               /\ merged[1].SupportsFunctions = caps[1].SupportsFunctions
               /\ merged[1].SupportsSystemRole = caps[1].SupportsSystemRole
               /\ merged[1].MaxTokens = caps[1].MaxTokens
               /\ merged[1].MaxContextLength = caps[1].MaxContextLength
               /\ IsOrderedUnion(merged[1].SupportedModels, caps[1].SupportedModels)
               /\ IsOrderedUnion(merged[1].SupportedParameters, caps[1].SupportedParameters)
        /\ NoDuplicate(merged[1].SupportedModels)
        /\ NoDuplicate(merged[1].SupportedParameters)

(***************************************************************************)
(* Validation against conversion                                           *)
(***************************************************************************)

\* C29: on both adapters and for Generate and StreamGenerate, a request that
\* ValidateStandardRequest accepts is converted and reaches the vendor call:
\* no adapter refuses it because of a message role, "function" included.
C29_ValidationSufficient ==
    (reqOp \in AdapterOps /\ ValidateStandardRequest(req) = "nil") =>
        /\ reqResult.vendorCalls = 1
        /\ ~Contains(reqResult.err, "unsupported message role")

(***************************************************************************)
(* Release of the upstream                                                 *)
(***************************************************************************)

\* The producer is blocked in pw.Write.
InWrite == prodPc \in {"write", "writeFinal"}

\* C30: the handler has closed the stream whenever the streaming call has
\* returned, on each of its exit paths (terminal marker, read error,
\* cancellation, client write failure); once the stream is closed a producer
\* that leaves a pipe write does so by terminating; and after the close the
\* producer does not stay blocked on a pipe write.
C30_UpstreamReleased ==
    /\ [](handlerPc = "returned" =>
            (rcClosed /\ exitPath \in {"done", "error", "cancel", "writefail"}))
    /\ [][(rcClosed /\ InWrite /\ prodPc' # prodPc) => prodPc' = "done"]_vars
    /\ rcClosed ~> [](~InWrite)

\* The client write failed, the handler returned, and the producer's pending
\* write of a fragment that was never read has failed: the producer ended.
C30_Witness ==
    /\ handlerPc = "returned"
    /\ exitPath = "writefail"
    /\ rcClosed
    /\ prodPc = "done"
    /\ pend = NoData
    /\ Len(upLog) > Len(readLog)

\* The stream has just been closed after a cancellation while the producer
\* is blocked in a write.
C30_WitnessBlocked ==
    /\ exitPath = "cancel"
    /\ rcClosed
    /\ InWrite

====
